---- MODULE Spec2Model ----
(***************************************************************************)
(* Gemini-Cut: the plan normaliser (editing/plan_validation.py) and the    *)
(* job worker with its render pipeline (app.py, editing/ffmpeg_engine.py). *)
(*                                                                         *)
(* Times are fixed-point integers.  In the job model and in SpecClamp one  *)
(* unit is a tenth of a second (0.4 s = 4, 30 s = 300, 60 s = 600); in     *)
(* SpecNormalize the unit is abstract and min_len is an input.             *)
(***************************************************************************)
EXTENDS Integers, Sequences, FiniteSets, TLC

VARIABLES
    fn_pc,          \* position of the pure-function harness
    in_segments,    \* argument `segments` of normalize_segments
    in_min_len,     \* argument `min_len` of normalize_segments
    normalized,     \* normalize_segments(in_segments, in_min_len)
    renormalized,   \* normalize_segments(normalized, in_min_len)
    clamp_in,       \* argument `segments` of clamp_duration_to_range
    clamp_target,   \* argument `target_s` of clamp_duration_to_range
    clamp_out,      \* its result: [segments, total]
    ff_in,          \* arguments of the ffmpeg_engine function under study
    ff_cmd,         \* the command it builds
    ff_auto,        \* input whose audio ffmpeg selects when nothing is mapped
    JOBS,           \* the job registry: job id -> [status, progress, error, output]
    pc,             \* position of the request handler / worker thread
    opts,           \* the job's option bag (the fields the pipeline reads)
    plan,           \* the plan returned by get_plan (the fields read)
    plan_norm,      \* normalize_segments(plan["segments"]) of process_job
    segments,       \* the local `segments` of process_job
    source_info,    \* inspect_video(render_source): [width, height]
    attempt,        \* number of the running render attempt, 0 before rendering
    attempts,       \* per attempt: [opts, segments, result]
    stage,          \* stage of the running attempt
    clips,          \* clip_paths: indices of the clips trimmed so far
    timeline,       \* content of the file the next stage reads
    captions_ass,   \* captions.ass was written in the running attempt
    transition_failed, \* apply_transitions raised in the running attempt
    overlay_failed, \* apply_overlays raised in the running attempt
    raised_at,      \* stage whose exception ended the last attempt
    output,         \* content of final.mp4 once an attempt returned
    exc,            \* the exception caught by the outer handler
    server_log,     \* entries appended to the job's server.log
    cmd_log,        \* lines of the job's ffmpeg_commands.txt
    invoked,        \* the ffmpeg commands the render attempts ran, in order
    JOB_LOCK,       \* the thread that holds threading.Lock(), or None
    threads         \* per thread of the registry model: its position and locals

ffVars == <<ff_in, ff_cmd, ff_auto>>

lockVars == <<JOB_LOCK, threads>>

fnVars == <<fn_pc, in_segments, in_min_len, normalized, renormalized,
            clamp_in, clamp_target, clamp_out, ff_in, ff_cmd, ff_auto,
            JOB_LOCK, threads>>

renderVars == <<attempt, attempts, stage, clips, timeline, captions_ass, transition_failed,
                overlay_failed, raised_at, output>>

jobVars == <<JOBS, pc, opts, plan, plan_norm, segments, source_info,
             attempt, attempts, stage, clips, timeline, captions_ass, transition_failed,
             overlay_failed, raised_at, output, exc, server_log, cmd_log, invoked,
             JOB_LOCK, threads>>

logVars == <<cmd_log, invoked>>

vars == <<fn_pc, in_segments, in_min_len, normalized, renormalized,
          clamp_in, clamp_target, clamp_out, ff_in, ff_cmd, ff_auto,
          JOBS, pc, opts, plan, plan_norm, segments, source_info,
          attempt, attempts, stage, clips, timeline, captions_ass, transition_failed,
          overlay_failed, raised_at, output, exc, server_log, cmd_log, invoked,
          JOB_LOCK, threads>>

-----------------------------------------------------------------------------
(* Program constants, in tenths of a second. *)

\* min_len: float = 0.4
MIN_LEN == 4
\* min_total=30.0
MIN_TOTAL == 300
\* max_total=60.0
MAX_TOTAL == 600
\* if remaining >= 0.4
CLAMP_MIN_REMAINING == 4
\* opts.get("duration_s", 45)
DEFAULT_DURATION == 450

-----------------------------------------------------------------------------
(* Bounds of the model. *)

\* SpecNormalize: segment times range over -1..MaxT, lists hold at most
\* MaxInSegs segments, min_len ranges over 1..MaxMinLen.
MaxT == 2
MaxInSegs == 3
MaxMinLen == 2

\* SpecClamp: segment times lie on a grid of MaxCoarse+1 coarse points
\* GridStep apart, each with the fine offsets 0 and 1; lists hold at most
\* MaxClampSegs segments.
GridStep == 149
MaxCoarse == 5
MaxClampSegs == 3

-----------------------------------------------------------------------------
(* editing/plan_validation.py *)

Seg(s, e) == [start |-> s, end |-> e]

Max(a, b) == IF a >= b THEN a ELSE b

SegLen(seg) == seg.end - seg.start

\* sorted(segs, key=start) is stable: a segment is placed after every
\* segment already placed whose start is <= its own.
RECURSIVE InsertByStart(_, _)
InsertByStart(ordered, seg) ==
    IF ordered = <<>> THEN <<seg>>
    ELSE IF Head(ordered).start <= seg.start
         THEN <<Head(ordered)>> \o InsertByStart(Tail(ordered), seg)
         ELSE <<seg>> \o ordered

RECURSIVE SortByStart(_)
SortByStart(segs) ==
    IF segs = <<>> THEN <<>>
    ELSE InsertByStart(SortByStart(SubSeq(segs, 1, Len(segs) - 1)),
                       segs[Len(segs)])

\* The for loop of normalize_segments over `ordered`, from index i on.
RECURSIVE NormalizeLoop(_, _, _, _, _)
NormalizeLoop(ordered, i, last_end, acc, min_len) ==
    IF i > Len(ordered) THEN acc
    ELSE LET seg   == ordered[i]
             end   == seg.end
             start == IF seg.start < last_end THEN last_end ELSE seg.start
         IN  IF end <= seg.start
             THEN NormalizeLoop(ordered, i + 1, last_end, acc, min_len)
             ELSE IF end - start < min_len
             THEN NormalizeLoop(ordered, i + 1, last_end, acc, min_len)
             ELSE NormalizeLoop(ordered, i + 1, end,
                                Append(acc, Seg(start, end)), min_len)

\* Mutant: the overlap clamp `if start < last_end: start = last_end` is lost.
RECURSIVE NormalizeLoopNoClamp(_, _, _, _, _)
NormalizeLoopNoClamp(ordered, i, last_end, acc, min_len) ==
    IF i > Len(ordered) THEN acc
    ELSE LET seg == ordered[i]
         IN  IF seg.end <= seg.start \/ seg.end - seg.start < min_len
             THEN NormalizeLoopNoClamp(ordered, i + 1, last_end, acc, min_len)
             ELSE NormalizeLoopNoClamp(ordered, i + 1, seg.end,
                                       Append(acc, seg), min_len)

normalize_segments_no_clamp(segs, min_len) ==
    NormalizeLoopNoClamp(SortByStart(segs), 1, 0, <<>>, min_len)

\* Mutant: the length test `end - start < min_len` is made before the overlap
\* clamp, on the segment's own start.
RECURSIVE NormalizeLoopLenFirst(_, _, _, _, _)
NormalizeLoopLenFirst(ordered, i, last_end, acc, min_len) ==
    IF i > Len(ordered) THEN acc
    ELSE LET seg   == ordered[i]
             start == IF seg.start < last_end THEN last_end ELSE seg.start
         IN  IF seg.end <= seg.start \/ seg.end - seg.start < min_len
                \/ seg.end <= start
             THEN NormalizeLoopLenFirst(ordered, i + 1, last_end, acc, min_len)
             ELSE NormalizeLoopLenFirst(ordered, i + 1, seg.end,
                                        Append(acc, Seg(start, seg.end)), min_len)

normalize_segments_len_first(segs, min_len) ==
    NormalizeLoopLenFirst(SortByStart(segs), 1, 0, <<>>, min_len)

normalize_segments(segs, min_len) ==
    NormalizeLoop(SortByStart(segs), 1, 0, <<>>, min_len)

RECURSIVE Total(_)
Total(segs) ==
    IF segs = <<>> THEN 0
    ELSE SegLen(Head(segs)) + Total(Tail(segs))

\* The for loop of clamp_duration_to_range; yields [trimmed, running].
RECURSIVE ClampLoop(_, _, _, _, _, _)
ClampLoop(segs, i, running, trimmed, target_s, min_total) ==
    IF i > Len(segs) THEN [trimmed |-> trimmed, running |-> running]
    ELSE LET seg     == segs[i]
             seg_len == SegLen(seg)
         IN  IF running + seg_len <= target_s
             THEN ClampLoop(segs, i + 1, running + seg_len,
                            Append(trimmed, seg), target_s, min_total)
             ELSE LET remaining == Max(target_s - running, min_total - running)
                  IN  IF remaining >= CLAMP_MIN_REMAINING
                      THEN [trimmed |-> Append(trimmed,
                                          Seg(seg.start, seg.start + remaining)),
                            running |-> running + remaining]
                      ELSE [trimmed |-> trimmed, running |-> running]

\* Mutant: the rejection `if running < min_total: return segs, total`
\* is lost, so a trimmed list that came out too short is returned.
clamp_duration_no_reject(segs, target_s, min_total, max_total) ==
    LET total == Total(segs)
    IN  IF total <= max_total
        THEN [segments |-> segs, total |-> total]
        ELSE LET r == ClampLoop(segs, 1, 0, <<>>, target_s, min_total)
             IN  [segments |-> r.trimmed, total |-> r.running]

\* Mutant: the segment that crosses the target is appended whole instead of
\* being cut to the remaining budget.
RECURSIVE ClampLoopNoTruncate(_, _, _, _, _, _)
ClampLoopNoTruncate(segs, i, running, trimmed, target_s, min_total) ==
    IF i > Len(segs) THEN [trimmed |-> trimmed, running |-> running]
    ELSE LET seg     == segs[i]
             seg_len == SegLen(seg)
         IN  IF running + seg_len <= target_s
             THEN ClampLoopNoTruncate(segs, i + 1, running + seg_len,
                                      Append(trimmed, seg), target_s, min_total)
             ELSE [trimmed |-> Append(trimmed, seg), running |-> running + seg_len]

clamp_duration_no_truncate(segs, target_s, min_total, max_total) ==
    LET total == Total(segs)
    IN  IF total <= max_total
        THEN [segments |-> segs, total |-> total]
        ELSE LET r == ClampLoopNoTruncate(segs, 1, 0, <<>>, target_s, min_total)
             IN  IF r.running < min_total
                 THEN [segments |-> segs, total |-> total]
                 ELSE [segments |-> r.trimmed, total |-> r.running]

clamp_duration_to_range(segs, target_s, min_total, max_total) ==
    LET total == Total(segs)
    IN  IF total <= max_total
        THEN [segments |-> segs, total |-> total]
        ELSE LET r == ClampLoop(segs, 1, 0, <<>>, target_s, min_total)
             IN  IF r.running < min_total
                 THEN [segments |-> segs, total |-> total]
                 ELSE [segments |-> r.trimmed, total |-> r.running]

-----------------------------------------------------------------------------
(* Inputs of the pure functions. *)

SeqsUpTo(S, n) == UNION {[1..k -> S] : k \in 0..n}

SmallTimes == (0 - 1)..MaxT

\* Every segment with end > start, and the degenerate ones (end <= start,
\* which all take the same `continue`) with end = start or end = start - 1.
SmallSegs == {g \in {Seg(s, e) : s \in SmallTimes, e \in SmallTimes} :
                 g.end >= g.start - 1}

NormalizeInputs == SeqsUpTo(SmallSegs, MaxInSegs)

MinLens == 1..MaxMinLen

GridTimes == {c * GridStep + f : c \in 0..MaxCoarse, f \in {0, 1}}

GridSegs == {Seg(s, e) : s \in GridTimes, e \in GridTimes}

\* The lists over the grid that normalize_segments can return: built left to
\* right from segments that start at or after the previous end, and kept only
\* when normalize_segments maps them to themselves.
RECURSIVE GridListsFrom(_, _)
GridListsFrom(last_end, n) ==
    IF n = 0 THEN {<<>>}
    ELSE {<<>>} \cup
         UNION {{<<seg>> \o rest : rest \in GridListsFrom(seg.end, n - 1)} :
                seg \in {g \in GridSegs : g.start >= last_end /\ g.end > g.start}}

ClampInputs ==
    {L \in GridListsFrom(0, MaxClampSegs) : normalize_segments(L, MIN_LEN) = L}

\* target_s below min_total, inside the bounds, and above max_total.
ClampTargets == {100, MIN_TOTAL, DEFAULT_DURATION, MAX_TOTAL, 700}

-----------------------------------------------------------------------------
(* app.py: the job registry. *)

\* The one job id of the model (uuid4 of start_job / start_from_url).
JID == "j1"

\* Python's None in the registry.
None == "None"

NoJobs == [j \in {} |-> None]

\* JOBS[job_id] = {"status": "queued", "progress": 0, "error": None, "output": None}
NewJob == [status |-> "queued", progress |-> 0, error |-> None, output |-> None]

\* dict.update(fields)
DictUpdate(d, fields) ==
    [k \in (DOMAIN d) \cup (DOMAIN fields) |->
        IF k \in DOMAIN fields THEN fields[k] ELSE d[k]]

\* Mutant: an update to status "done" drops the `output` field.
update_job_drops_output(jobs, job_id, fields) ==
    IF job_id \notin DOMAIN jobs THEN jobs
    ELSE [jobs EXCEPT ![job_id] =
            DictUpdate(@, [k \in (DOMAIN fields) \ {"output"} |-> fields[k]])]

\* update_job(job_id, **fields), as the registry after the call.
update_job(jobs, job_id, fields) ==
    IF job_id \notin DOMAIN jobs THEN jobs
    ELSE [jobs EXCEPT ![job_id] = DictUpdate(@, fields)]

\* GET /download/{job_id}: the HTTP status and the file served.
download(jobs, job_id) ==
    IF job_id \notin DOMAIN jobs THEN [code |-> 404, file |-> None]
    ELSE IF jobs[job_id].status # "done" THEN [code |-> 400, file |-> None]
    ELSE [code |-> 200, file |-> jobs[job_id].output]

\* GET /status/{job_id}: the HTTP status and the body.
get_status(jobs, job_id) ==
    IF job_id \notin DOMAIN jobs THEN [code |-> 404, body |-> None]
    ELSE [code |-> 200,
          body |-> IF jobs[job_id].status = "done"
                   THEN DictUpdate(jobs[job_id], [output_url |-> "/download/j1"])
                   ELSE jobs[job_id]]

-----------------------------------------------------------------------------
(* app.py: options. *)

ALLOWED_RES == {"1080x1920", "720x1280"}

ALLOWED_TRANSITIONS == {"auto", "none", "fade", "crossfade", "dip_black", "swipe"}

\* normalize_transition_type on the request values of the model (already
\* stripped and lower case): aliases are mapped, anything else is kept.
normalize_transition_type(value) ==
    IF value = None THEN "auto"
    ELSE IF value = "cross-fade" THEN "crossfade"
    ELSE IF value = "auto_gemini" THEN "auto"
    ELSE value

\* int(opts["output_resolution"].split("x")[0])
ResWidth(res) == IF res = "1080x1920" THEN 1080 ELSE 720

\* validate_opts: the duration range check (the other allow-list checks raise
\* the same HTTPException), then the transition type is normalised in place.
ValidDuration(o) == ~(o.duration_s < MIN_TOTAL \/ o.duration_s > MAX_TOTAL)

validate_opts(o) ==
    LET t == normalize_transition_type(o.transition_type)
    IN  [o EXCEPT !.transition_type = IF t \in ALLOWED_TRANSITIONS THEN t ELSE "auto"]

\* Request values of the model.
RequestDurations == {200, MIN_TOTAL, DEFAULT_DURATION}

RequestTransitions == {"none", "fade", "swipe", "zoom"}

RequestOpts ==
    [duration_s : RequestDurations,
     transition_type : RequestTransitions,
     ai_visuals_enabled : BOOLEAN,
     captions_enabled : BOOLEAN,
     output_resolution : ALLOWED_RES]

NoOpts == [duration_s |-> 0, transition_type |-> None, ai_visuals_enabled |-> FALSE,
           captions_enabled |-> FALSE, output_resolution |-> None]

\* Mutant: only a requested auto is resolved; a requested none is kept.
ResolveTransitionAutoOnly(o, suggested) ==
    IF o.transition_type = "auto"
    THEN [o EXCEPT !.transition_type =
            IF suggested \in ALLOWED_TRANSITIONS /\ suggested # "none"
            THEN suggested ELSE "fade"]
    ELSE o

\* process_job lines 528-533: a requested auto/none takes the plan's
\* suggestion when that is an allowed value other than none, else fade.
ResolveTransition(o, suggested) ==
    IF o.transition_type \in {"auto", "none"}
    THEN [o EXCEPT !.transition_type =
            IF suggested \in ALLOWED_TRANSITIONS /\ suggested # "none"
            THEN suggested ELSE "fade"]
    ELSE o

\* Mutant: the first fallback disables the overlays but keeps the transition.
FallbackOptsKeepsTransition(o) == [o EXCEPT !.ai_visuals_enabled = FALSE]

\* fallback_opts = {**opts, "ai_visuals_enabled": False, "transition_type": "none"}
FallbackOpts(o) ==
    [o EXCEPT !.ai_visuals_enabled = FALSE, !.transition_type = "none"]

\* fallback_opts["captions_enabled"] = False
FallbackOptsNoCaptions(o) == [o EXCEPT !.captions_enabled = FALSE]

-----------------------------------------------------------------------------
(* The plans get_plan may return. *)

\* Raw segment lists, in tenths of a second.
PlanSegmentChoices ==
    { <<>>,                                          \* no segments
      <<Seg(0, 150), Seg(100, 103)>>,                \* second one dropped
      <<Seg(150, 450), Seg(0, 150)>>,                \* 45 s, unsorted
      <<Seg(0, 50), Seg(50, 200), Seg(180, 300)>>,   \* 30 s, one overlap
      <<Seg(0, 100), Seg(100, 200)>>,                \* 20 s, under-length
      <<Seg(0, 200), Seg(200, 400), Seg(400, 700)>>, \* 70 s, trimmed
      <<Seg(0, 460), Seg(460, 750)>>,                \* 75 s, first alone fills
      <<Seg(0, 298), Seg(300, 750)>> }               \* 74.8 s, clamp rejected

\* plan["transition"]; "zoom" is a value outside the allow-list.
PlanTransitions == {"none", "swipe", "zoom"}

Plans ==
    [segments : PlanSegmentChoices,
     transition : PlanTransitions,
     captions_srt : BOOLEAN]

NoPlan == [segments |-> <<>>, transition |-> None, captions_srt |-> FALSE]

-----------------------------------------------------------------------------
(* The source video and the files of a render attempt. *)

Info(w, h) == [width |-> w, height |-> h]

\* inspect_video of the source: a 9:16 frame, and one taller than 9:16.
SourceInfos == {Info(720, 1280), Info(1080, 2400)}

NoInfo == Info(0, 0)

\* render_video_pipeline lines 391-395.
TargetWidth(src, o) == Max(src.width, ResWidth(o.output_resolution))

TargetHeight(src, o) == (TargetWidth(src, o) * 16) \div 9

\* Mutant: the integrity check compares the widths only.
OutputLowerWidthOnly(output_info, src) == output_info.width < src.width

\* process_job lines 612-615.
OutputLower(output_info, src) ==
    \/ output_info.width < src.width
    \/ output_info.height < src.height

\* Content of a video file of the run directory.
NoFile == [clips |-> <<>>, transition |-> None, overlays |-> 0,
           captions |-> FALSE, audio |-> FALSE, info |-> NoInfo]

\* concat_clips: stream copy of the listed clips, in list order.
ConcatFile(clip_paths, info) ==
    [clips |-> clip_paths, transition |-> "none", overlays |-> 0,
     captions |-> FALSE, audio |-> TRUE, info |-> info]

\* apply_transitions past line 102: chained xfade of the clips, video only (-an).
XfadeFile(clip_paths, transition_type, info) ==
    [clips |-> clip_paths, transition |-> transition_type, overlays |-> 0,
     captions |-> FALSE, audio |-> FALSE, info |-> info]

\* Mutant: the except branch concatenates the clips in reverse order.
RECURSIVE Reverse(_)
Reverse(s) == IF s = <<>> THEN <<>> ELSE Append(Reverse(Tail(s)), Head(s))

TransitionFallbackReversed(clip_paths, info) == ConcatFile(Reverse(clip_paths), info)

\* render_video_pipeline line 443: concat_clips(clip_paths, concat_output, ...)
TransitionFallback(clip_paths, info) == ConcatFile(clip_paths, info)

\* apply_transitions, when its command succeeds.
apply_transitions(clip_paths, transition_type, info) ==
    IF transition_type = "none" \/ Len(clip_paths) < 2
    THEN ConcatFile(clip_paths, info)
    ELSE XfadeFile(clip_paths, transition_type, info)

\* apply_overlays with a non-empty overlay list, when its command succeeds:
\* only the composited video stream is mapped.
OverlayFile(base, n) == [base EXCEPT !.overlays = n, !.audio = FALSE]

\* Mutant: render_final encodes the first clip alone instead of the file the
\* overlay stage left.
FinalFileFromFirstClip(base, ass) ==
    [base EXCEPT !.clips = SubSeq(base.clips, 1, 1), !.captions = ass]

\* render_final, when its command succeeds: subtitles are burnt in when a
\* captions file was written.
FinalFile(base, ass) == [base EXCEPT !.captions = ass]

\* str(output_path)
FinalPath == "runs/j1/final.mp4"

\* captions_ass is written when opts["captions_enabled"] and plan["captions_srt"].
WantsCaptions(o, p) == o.captions_enabled /\ p.captions_srt

\* Largest number of overlays generate_visual_assets returns in the model.
MaxOverlays == 1

\* Number of render attempts process_job nests (lines 594-608).
MAX_ATTEMPTS == 3

-----------------------------------------------------------------------------
(* editing/ffmpeg_engine.py: the command render_final builds.               *)

\* A source attached to the command with -i.
Src(kind, n) == [kind |-> kind, n |-> n]

\* A pad of the filter graph: "[idx:a]", or a named label.
In(idx) == [ref |-> "in", idx |-> idx, name |-> "a"]

Lbl(name) == [ref |-> "label", idx |-> 0, name |-> name]

\* f"sfx{offset}"
SfxLbl(offset) == [ref |-> "label", idx |-> offset, name |-> "sfx"]

\* One filter of filter_complex: its input pads, its output label, the
\* duration option of amix and the filter chain of the enhancement stage.
Stage(op, ins, out, duration, chain) ==
    [op |-> op, ins |-> ins, out |-> out, duration |-> duration, chain |-> chain]

\* voiceover_idx = None, music_idx = None
NoIdx == 0 - 1

\* Lines 169-178: audio_filters.
AudioFilters(o) ==
    (IF o.audio_enhance THEN <<"loudnorm", "compand">> ELSE <<>>)
    \o (IF o.audio_loudnorm THEN <<"loudnorm">> ELSE <<>>)
    \o (IF o.audio_compressor THEN <<"compand">> ELSE <<>>)
    \o (IF o.audio_denoise THEN <<"afftdn">> ELSE <<>>)

\* Lines 180-193: the -i arguments, in the order they are added to cmd.
Inputs(o) ==
    <<Src("base", 0)>>
    \o (IF o.voiceover THEN <<Src("voiceover", 0)>> ELSE <<>>)
    \o (IF o.music THEN <<Src("music", 0)>> ELSE <<>>)
    \o [i \in 1..o.nsfx |-> Src("sfx", i - 1)]

\* Lines 184-187.
VoiceoverIdx(o) == IF o.voiceover THEN 1 ELSE NoIdx

\* Lines 189-192.
MusicIdx(o) == IF o.music THEN (IF o.voiceover THEN 2 ELSE 1) ELSE NoIdx

\* Mutant: the SFX inputs are counted from the voiceover even when music
\* was attached before them.
SfxStartIgnoresMusic(o) ==
    IF VoiceoverIdx(o) # NoIdx THEN VoiceoverIdx(o) + 1 ELSE 1

\* Line 229.
SfxStart(o) ==
    IF MusicIdx(o) # NoIdx THEN MusicIdx(o) + 1
    ELSE IF VoiceoverIdx(o) # NoIdx THEN VoiceoverIdx(o) + 1
    ELSE 1

\* Lines 203-208: the atempo stage and voice_input.
VoiceInput(o) == IF o.atempo THEN Lbl("vo") ELSE In(VoiceoverIdx(o))

TempoStages(o) ==
    IF o.atempo
    THEN <<Stage("atempo", <<In(VoiceoverIdx(o))>>, Lbl("vo"), "", <<>>)>>
    ELSE <<>>

\* Lines 213-217: mode "mix".
MixStages(voice_input) ==
    <<Stage("amix", <<In(0), voice_input>>, Lbl("voice"), "first", <<>>)>>

\* Mutant: the voiceover is compressed under the control of the base audio.
DuckStagesSwapped(voice_input) ==
    <<Stage("sidechaincompress", <<voice_input, In(0)>>, Lbl("ducked"), "", <<>>),
      Stage("amix", <<Lbl("ducked"), voice_input>>, Lbl("voice"), "first", <<>>)>>

\* Lines 218-225: mode "duck" (any mode other than replace and mix).
DuckStages(voice_input) ==
    <<Stage("sidechaincompress", <<In(0), voice_input>>, Lbl("ducked"), "", <<>>),
      Stage("amix", <<Lbl("ducked"), voice_input>>, Lbl("voice"), "first", <<>>)>>

\* Lines 201-225: [stages, label] with label the value of voice_label.
VoiceStages(o) ==
    IF ~o.voiceover THEN [stages |-> <<>>, label |-> In(0)]
    ELSE IF o.mode = "replace"
    THEN [stages |-> TempoStages(o), label |-> VoiceInput(o)]
    ELSE IF o.mode = "mix"
    THEN [stages |-> TempoStages(o) \o MixStages(VoiceInput(o)),
          label |-> Lbl("voice")]
    ELSE [stages |-> TempoStages(o) \o DuckStages(VoiceInput(o)),
          label |-> Lbl("voice")]

\* Lines 227-244: one adelay/volume stage per SFX item, then their mix with
\* voice_label.
SfxStages(o, voice_label) ==
    IF o.nsfx = 0 THEN [stages |-> <<>>, label |-> voice_label]
    ELSE [stages |->
             [i \in 1..o.nsfx |->
                 Stage("adelay", <<In(SfxStart(o) + (i - 1))>>, SfxLbl(i - 1),
                       "", <<>>)]
             \o <<Stage("amix",
                        <<voice_label>> \o [i \in 1..o.nsfx |-> SfxLbl(i - 1)],
                        Lbl("voice_sfx"), "first", <<>>)>>,
          label |-> Lbl("voice_sfx")]

\* Lines 246-261: [stages, label] with label the value of audio_map.
MusicStages(o, voice_label) ==
    IF MusicIdx(o) = NoIdx THEN [stages |-> <<>>, label |-> voice_label]
    ELSE [stages |->
             <<Stage("volume", <<In(MusicIdx(o))>>, Lbl("music"), "", <<>>)>>
             \o (IF o.music_ducking
                 THEN <<Stage("sidechaincompress", <<Lbl("music"), voice_label>>,
                              Lbl("ducked"), "", <<>>),
                        Stage("amix", <<voice_label, Lbl("ducked")>>,
                              Lbl("aout"), "first", <<>>)>>
                 ELSE <<Stage("amix", <<voice_label, Lbl("music")>>,
                              Lbl("aout"), "first", <<>>)>>),
          label |-> Lbl("aout")]

\* Lines 263-265: the enhancement chain.
EnhanceStages(o, audio_map) ==
    IF AudioFilters(o) = <<>> THEN [stages |-> <<>>, label |-> audio_map]
    ELSE [stages |-> <<Stage("chain", <<audio_map>>, Lbl("afinal"), "",
                             AudioFilters(o))>>,
          label |-> Lbl("afinal")]

\* render_final: the inputs, -vf, filter_complex, the -map arguments and -af.
render_final(o) ==
    LET voice   == VoiceStages(o)
        sfx     == SfxStages(o, voice.label)
        music   == MusicStages(o, sfx.label)
        enhance == EnhanceStages(o, music.label)
        fc      == voice.stages \o sfx.stages \o music.stages \o enhance.stages
    IN  [inputs         |-> Inputs(o),
         vf             |-> IF o.captions THEN <<"subtitles">> ELSE <<>>,
         filter_complex |-> fc,
         mapped         |-> fc # <<>>,
         audio_map      |-> enhance.label,
         af             |-> IF fc = <<>> THEN AudioFilters(o) ELSE <<>>]

\* The stage that produces the label read by stage i (by the -map when
\* i = Len(fc) + 1): the last stage before i with that output; 0 if none.
RECURSIVE Producer(_, _, _)
Producer(fc, i, pad) ==
    IF i <= 1 THEN 0
    ELSE IF fc[i - 1].out = pad THEN i - 1
    ELSE Producer(fc, i - 1, pad)

\* The inputs whose audio is heard in the pad read at position i.  The audio
\* of sidechaincompress is that of its first input; the second only controls
\* the gain.
RECURSIVE Heard(_, _, _)
Heard(fc, i, pad) ==
    IF pad.ref = "in" THEN {pad.idx}
    ELSE LET j == Producer(fc, i, pad)
         IN  IF j = 0 THEN {}
             ELSE IF fc[j].op = "sidechaincompress"
             THEN Heard(fc, j, fc[j].ins[1])
             ELSE UNION {Heard(fc, j, fc[j].ins[k]) : k \in 1..Len(fc[j].ins)}

\* The inputs heard in the output file: those behind -map audio_map, or the
\* one stream ffmpeg selects by itself when the command maps nothing.
OutputAudio(cmd, auto) ==
    IF cmd.mapped
    THEN Heard(cmd.filter_complex, Len(cmd.filter_complex) + 1, cmd.audio_map)
    ELSE {auto}

\* amix duration=first|longest: the length of the mixed stream.
AmixDuration(duration, durs) ==
    IF duration = "first" THEN durs[1]
    ELSE IF Len(durs) = 1 \/ durs[1] >= durs[2] THEN durs[1] ELSE durs[2]

-----------------------------------------------------------------------------
(* editing/ffmpeg_engine.py: the commands of concat_clips and               *)
(* apply_transitions.                                                        *)

\* concat_clips: concat.txt lists the clips in list order, one `file` line
\* each; ffmpeg -f concat -safe 0 -i concat.txt -c copy.
concat_clips(clip_paths) ==
    [demuxer |-> "concat", list |-> clip_paths, inputs |-> <<"concat.txt">>,
     codec |-> "copy", filter_complex |-> <<>>, map |-> <<>>, an |-> FALSE]

\* Lines 104-110: transitions.get(transition_type, "fade").
XfadeName(transition_type) ==
    IF transition_type \in {"fade", "crossfade"} THEN "fade"
    ELSE IF transition_type = "dip_black" THEN "fadeblack"
    ELSE IF transition_type = "swipe" THEN "wipeleft"
    ELSE "fade"

\* The video pad of input idx, [idx:v], and the label [v<idx>].
VIn(idx) == [ref |-> "input", idx |-> idx]

VLbl(idx) == [ref |-> "label", idx |-> idx]

\* Mutant: the running offset advances by the whole length of each clip.
RECURSIVE XfadeOffsetNoOverlap(_, _, _)
XfadeOffsetNoOverlap(durations, duration, idx) ==
    IF idx = 1 THEN durations[1] - duration
    ELSE XfadeOffsetNoOverlap(durations, duration, idx - 1) + durations[idx]

\* Lines 117-123: the value of `offset` when the stage of clip idx is built
\* (clip idx of the code is durations[idx + 1] here): durations[0] - duration
\* at first, then offset += durations[idx] - duration after each stage.
RECURSIVE XfadeOffset(_, _, _)
XfadeOffset(durations, duration, idx) ==
    IF idx = 1 THEN durations[1] - duration
    ELSE XfadeOffset(durations, duration, idx - 1) + durations[idx] - duration

\* Lines 111-125: every clip is an input, one xfade stage per clip after the
\* first, chained through the labels v1, v2, ...; the last label is mapped;
\* video only (-an).
XfadeCommand(clip_paths, transition_type, durations, duration) ==
    [demuxer |-> "none", list |-> <<>>, inputs |-> clip_paths,
     codec |-> "encode",
     filter_complex |->
        [idx \in 1..(Len(clip_paths) - 1) |->
            [op |-> "xfade", transition |-> XfadeName(transition_type),
             ins |-> <<IF idx = 1 THEN VIn(0) ELSE VLbl(idx - 1), VIn(idx)>>,
             duration |-> duration,
             offset |-> XfadeOffset(durations, duration, idx),
             out |-> VLbl(idx)]],
     map |-> <<VLbl(Len(clip_paths) - 1)>>,
     an |-> TRUE]

\* Mutant: a single clip is sent through the xfade branch.
UsesConcatNoneOnly(clip_paths, transition_type) == transition_type = "none"

\* Line 100: if transition_type == "none" or len(clip_paths) < 2
UsesConcat(clip_paths, transition_type) ==
    transition_type = "none" \/ Len(clip_paths) < 2

\* apply_transitions: the command it runs.
TransitionCommand(clip_paths, transition_type, durations, duration) ==
    IF UsesConcat(clip_paths, transition_type)
    THEN concat_clips(clip_paths)
    ELSE XfadeCommand(clip_paths, transition_type, durations, duration)

-----------------------------------------------------------------------------
(* State of the job model before any request. *)

\* The registry model is not running: no thread, the lock is free.
LockIdle ==
    /\ JOB_LOCK = None
    /\ threads = <<>>

JobIdle ==
    /\ JOBS = NoJobs
    /\ pc = "none"
    /\ opts = NoOpts
    /\ plan = NoPlan
    /\ plan_norm = <<>>
    /\ segments = <<>>
    /\ source_info = NoInfo
    /\ attempt = 0
    /\ attempts = <<>>
    /\ stage = "none"
    /\ clips = <<>>
    /\ timeline = NoFile
    /\ captions_ass = FALSE
    /\ transition_failed = FALSE
    /\ overlay_failed = FALSE
    /\ raised_at = None
    /\ output = NoFile
    /\ exc = None
    /\ server_log = <<>>
    /\ cmd_log = <<>>
    /\ invoked = <<>>
    /\ LockIdle

NoClampOut == [segments |-> <<>>, total |-> 0]

FfIdle ==
    /\ ff_in = None
    /\ ff_cmd = None
    /\ ff_auto = 0

PlanFnIdle ==
    /\ in_segments = <<>>
    /\ in_min_len = 0
    /\ normalized = <<>>
    /\ renormalized = <<>>
    /\ clamp_in = <<>>
    /\ clamp_target = 0
    /\ clamp_out = NoClampOut

FnIdle ==
    /\ FfIdle
    /\ fn_pc = "off"
    /\ in_segments = <<>>
    /\ in_min_len = 0
    /\ normalized = <<>>
    /\ renormalized = <<>>
    /\ clamp_in = <<>>
    /\ clamp_target = 0
    /\ clamp_out = NoClampOut

-----------------------------------------------------------------------------
(* app.py: the request handlers that create a job. *)

\* POST /start (start_job): the job is registered, then the options are
\* validated; a rejected request leaves the registry entry and starts no thread.
StartJob ==
    /\ pc = "none"
    /\ \E o \in RequestOpts :
          /\ JOBS' = (JID :> NewJob) @@ JOBS
          /\ server_log' = server_log \o <<"Job created from file upload.">>
          /\ IF ValidDuration(o)
             THEN opts' = validate_opts(o) /\ pc' = "thread_start"
             ELSE opts' = NoOpts /\ pc' = "rejected"
    /\ UNCHANGED <<plan, plan_norm, segments, source_info, exc>>
    /\ UNCHANGED renderVars
    /\ UNCHANGED fnVars
    /\ UNCHANGED logVars

\* POST /start_from_url (start_from_url).
StartFromUrl ==
    /\ pc = "none"
    /\ \E o \in RequestOpts :
          /\ JOBS' = (JID :> NewJob) @@ JOBS
          /\ server_log' = server_log \o <<"Job created from URL.">>
          /\ IF ValidDuration(o)
             THEN opts' = validate_opts(o) /\ pc' = "url_thread_start"
             ELSE opts' = NoOpts /\ pc' = "rejected"
    /\ UNCHANGED <<plan, plan_norm, segments, source_info, exc>>
    /\ UNCHANGED renderVars
    /\ UNCHANGED fnVars
    /\ UNCHANGED logVars

-----------------------------------------------------------------------------
(* app.py: process_job_from_url.  download_url of media_ingest.py always   *)
(* raises IngestError, so the call of process_job at line 644 is never      *)
(* reached.                                                                  *)

UrlQueued ==
    /\ pc = "url_thread_start"
    /\ JOBS' = update_job(JOBS, JID, [status |-> "queued", progress |-> 10])
    /\ pc' = "url_fetching"
    /\ UNCHANGED <<opts, plan, plan_norm, segments, source_info, exc, server_log>>
    /\ UNCHANGED renderVars
    /\ UNCHANGED fnVars
    /\ UNCHANGED logVars

UrlFetching ==
    /\ pc = "url_fetching"
    /\ JOBS' = update_job(JOBS, JID, [status |-> "fetching_url", progress |-> 20])
    /\ pc' = "url_downloading"
    /\ UNCHANGED <<opts, plan, plan_norm, segments, source_info, exc, server_log>>
    /\ UNCHANGED renderVars
    /\ UNCHANGED fnVars
    /\ UNCHANGED logVars

UrlDownloading ==
    /\ pc = "url_downloading"
    /\ JOBS' = update_job(JOBS, JID, [status |-> "downloading", progress |-> 30])
    /\ server_log' = server_log \o <<"Downloading URL">>
    /\ exc' = "URL download is disabled."
    /\ pc' = "url_handler"
    /\ UNCHANGED <<opts, plan, plan_norm, segments, source_info>>
    /\ UNCHANGED renderVars
    /\ UNCHANGED fnVars
    /\ UNCHANGED logVars

\* except IngestError: the log entry, then the registry update.
UrlLogError ==
    /\ pc = "url_handler"
    /\ server_log' = server_log \o <<"ERROR">>
    /\ pc' = "logged"
    /\ UNCHANGED <<JOBS, opts, plan, plan_norm, segments, source_info, exc>>
    /\ UNCHANGED renderVars
    /\ UNCHANGED fnVars
    /\ UNCHANGED logVars

-----------------------------------------------------------------------------
(* app.py: process_job, up to the first render attempt. *)

\* The exception exc is caught by `except Exception` at line 625.
Caught(message) ==
    /\ exc' = message
    /\ pc' = "handler"

Queue ==
    /\ pc = "thread_start"
    /\ JOBS' = update_job(JOBS, JID, [status |-> "queued", progress |-> 10])
    /\ pc' = "check_key"
    /\ UNCHANGED <<opts, plan, plan_norm, segments, source_info, exc, server_log>>
    /\ UNCHANGED renderVars
    /\ UNCHANGED fnVars
    /\ UNCHANGED logVars

\* Lines 485-491.
CheckKey ==
    /\ pc = "check_key"
    /\ \E ok \in BOOLEAN :
          IF ok
          THEN /\ JOBS' = update_job(JOBS, JID, [status |-> "analyzing", progress |-> 45])
               /\ pc' = "upload"
               /\ exc' = exc
          ELSE /\ Caught("GEMINI_API_KEY is not set.")
               /\ JOBS' = JOBS
    /\ UNCHANGED <<opts, plan, plan_norm, segments, source_info, server_log>>
    /\ UNCHANGED renderVars
    /\ UNCHANGED fnVars
    /\ UNCHANGED logVars

\* Lines 492-497.
Upload ==
    /\ pc = "upload"
    /\ \E ok \in BOOLEAN :
          IF ok
          THEN /\ JOBS' = update_job(JOBS, JID, [status |-> "planning", progress |-> 60])
               /\ pc' = "plan"
               /\ exc' = exc
          ELSE /\ Caught("Gemini file processing timeout.")
               /\ JOBS' = JOBS
    /\ UNCHANGED <<opts, plan, plan_norm, segments, source_info, server_log>>
    /\ UNCHANGED renderVars
    /\ UNCHANGED fnVars
    /\ UNCHANGED logVars

\* Mutant: the guard is `len(segments) < 1`.
InsufficientSegmentsOffByOne(segs) == Len(segs) < 1

\* Line 536: if len(segments) < 2
InsufficientSegments(segs) == Len(segs) < 2

\* Lines 498-540: get_plan, the voiceover synthesis, the transition choice,
\* normalize_segments, the segment count check and clamp_duration_to_range.
Plan ==
    /\ pc = "plan"
    /\ \/ \* get_plan raises
          /\ Caught("Failed to generate plan.")
          /\ UNCHANGED <<opts, plan, plan_norm, segments, server_log>>
       \/ \* the plan is returned, the voiceover synthesis raises
          /\ Caught("ELEVENLABS_API_KEY is not set.")
          /\ server_log' = server_log \o <<"Gemini plan generated.">>
          /\ UNCHANGED <<opts, plan, plan_norm, segments>>
       \/ \E p \in Plans :
             LET nrm == normalize_segments(p.segments, MIN_LEN)
                 clamped == clamp_duration_to_range(nrm, opts.duration_s,
                                                    MIN_TOTAL, MAX_TOTAL)
             IN  /\ server_log' = server_log \o <<"Gemini plan generated.">>
                 /\ opts' = ResolveTransition(opts, p.transition)
                 /\ plan_norm' = nrm
                 /\ IF InsufficientSegments(nrm)
                    THEN /\ Caught("Plan returned insufficient segments.")
                         /\ segments' = nrm
                         /\ plan' = p
                    ELSE /\ segments' = clamped.segments
                         /\ plan' = [p EXCEPT !.segments = clamped.segments]
                         /\ pc' = "enrich"
                         /\ exc' = exc
    /\ UNCHANGED <<JOBS, source_info>>
    /\ UNCHANGED renderVars
    /\ UNCHANGED fnVars
    /\ UNCHANGED logVars

\* A new entry of the attempt history: the arguments of the call.
Call(o, segs) == [opts |-> o, segments |-> segs, result |-> "running"]

\* Lines 557-572: speech-to-text captions that came out non-empty replace the
\* plan's caption text and switch the captions on.
SttCaptions(o, p, stt) ==
    IF stt
    THEN [opts |-> [o EXCEPT !.captions_enabled = TRUE],
          plan |-> [p EXCEPT !.captions_srt = TRUE]]
    ELSE [opts |-> o, plan |-> p]

\* Lines 544-597: audio isolation, speech-to-text and sound effects (each may
\* raise), then the status update and the first call of render_video_pipeline.
Enrich ==
    /\ pc = "enrich"
    /\ \E ok \in BOOLEAN, stt \in BOOLEAN :
          IF ok
          THEN LET e == SttCaptions(opts, plan, stt)
               IN  /\ JOBS' = update_job(JOBS, JID, [status |-> "rendering",
                                                     progress |-> 80])
                   /\ opts' = e.opts
                   /\ plan' = e.plan
                   /\ pc' = "render"
                   /\ attempt' = 1
                   /\ attempts' = <<Call(e.opts, segments)>>
                   /\ stage' = "begin"
                   /\ exc' = exc
          ELSE /\ Caught("ELEVENLABS_API_KEY is not set.")
               /\ UNCHANGED <<JOBS, opts, plan, attempt, attempts, stage>>
    /\ UNCHANGED <<plan_norm, segments, source_info, server_log>>
    /\ UNCHANGED <<clips, timeline, captions_ass, transition_failed, overlay_failed,
                   raised_at, output>>
    /\ UNCHANGED fnVars
    /\ UNCHANGED logVars

-----------------------------------------------------------------------------
(* app.py: render_video_pipeline, one call per attempt, and the nested      *)
(* try/except of process_job lines 594-608.                                 *)

AttemptOpts == attempts[attempt].opts

AttemptSegs == attempts[attempt].segments

\* Every clip is scaled and padded to the target frame (build_video_filter).
ClipInfo == Info(TargetWidth(source_info, AttemptOpts),
                 TargetHeight(source_info, AttemptOpts))

\* _probe_duration of the trimmed clips: the lengths of their segments.
ClipDurations ==
    [i \in 1..Len(clips) |-> AttemptSegs[i].end - AttemptSegs[i].start]

\* opts.get("transition_duration", 0.3)
TRANSITION_DURATION == 3

\* The job model (Spec) leaves the command log out of its state: there
\* `track` is FALSE and cmd_log and invoked stay empty.  SpecRender follows
\* the render attempts of one job with `track` TRUE.

\* ffmpeg_engine._run: the command line is appended to the command log, then
\* the command is run.
RunLogged(track, cmd) ==
    IF track
    THEN /\ cmd_log' = Append(cmd_log, cmd)
         /\ invoked' = Append(invoked, cmd)
    ELSE UNCHANGED logVars

\* subprocess.run(cmd, check=True, capture_output=True) of the trim loop.
RunDirect(track, cmd) ==
    IF track
    THEN /\ invoked' = Append(invoked, cmd)
         /\ cmd_log' = cmd_log
    ELSE UNCHANGED logVars

\* The command of a transition stage, by the name used in the logs.
CommandName(cmd) == IF cmd.demuxer = "concat" THEN "concat" ELSE "xfade"

\* An exception leaves render_video_pipeline at stage st: the locals of the
\* call are gone; attempts 1 and 2 are followed by a fallback call, the
\* exception of attempt 3 reaches the handler at line 625.
AttemptRaises(st) ==
    /\ attempts' = [attempts EXCEPT ![attempt].result = "raised"]
    /\ raised_at' = st
    /\ clips' = <<>>
    /\ timeline' = NoFile
    /\ captions_ass' = FALSE
    /\ transition_failed' = FALSE
    /\ overlay_failed' = FALSE
    /\ IF attempt < MAX_ATTEMPTS
       THEN /\ stage' = "fallback"
            /\ UNCHANGED <<pc, exc>>
       ELSE /\ stage' = "raised"
            /\ Caught("FFmpeg command failed.")
    /\ UNCHANGED <<attempt, output>>

\* Lines 386-399: ensure_ffmpeg_available, inspect_video of the source, the
\* target frame and the filter chain.
BeginAttempt ==
    /\ pc = "render" /\ stage = "begin"
    /\ \E ok \in BOOLEAN :
          IF ok
          THEN /\ IF attempt = 1
                  THEN source_info' \in SourceInfos
                  ELSE source_info' = source_info
               /\ stage' = IF Len(AttemptSegs) = 0 THEN "transition" ELSE "trim"
               /\ UNCHANGED <<pc, exc, attempt, attempts, clips, timeline,
                              captions_ass, transition_failed, overlay_failed,
                              raised_at, output>>
          ELSE /\ AttemptRaises("begin")
               /\ source_info' = source_info
    /\ UNCHANGED <<JOBS, opts, plan, plan_norm, segments, server_log>>
    /\ UNCHANGED fnVars
    /\ UNCHANGED logVars

\* Lines 400-428: one trim command per segment, in segment order; clip idx is
\* the clip of segments[idx].
TrimClipStep(track) ==
    /\ pc = "render" /\ stage = "trim"
    /\ Len(clips) < Len(AttemptSegs)
    /\ \E ok \in BOOLEAN :
          IF ok
          THEN /\ clips' = Append(clips, Len(clips))
               /\ stage' = IF Len(clips) + 1 = Len(AttemptSegs)
                           THEN "transition" ELSE "trim"
               /\ UNCHANGED <<pc, exc, attempt, attempts, timeline, captions_ass,
                              transition_failed, overlay_failed, raised_at, output>>
          ELSE AttemptRaises("trim")
    /\ UNCHANGED <<JOBS, opts, plan, plan_norm, segments, source_info, server_log>>
    /\ UNCHANGED fnVars
    /\ RunDirect(track, "trim")

TrimClip == TrimClipStep(FALSE)

TrimClipTracked == TrimClipStep(TRUE)

\* Lines 430-442: apply_transitions; its exception is caught.
TransitionStep(track) ==
    /\ pc = "render" /\ stage = "transition"
    /\ \E ok \in BOOLEAN :
          IF ok
          THEN /\ timeline' = apply_transitions(clips, AttemptOpts.transition_type,
                                                ClipInfo)
               /\ stage' = "overlay"
               /\ UNCHANGED transition_failed
          ELSE /\ transition_failed' = TRUE
               /\ stage' = "concat_fallback"
               /\ UNCHANGED timeline
    /\ UNCHANGED <<pc, exc, attempt, attempts, clips, captions_ass, overlay_failed,
                   raised_at, output>>
    /\ UNCHANGED <<JOBS, opts, plan, plan_norm, segments, source_info, server_log>>
    /\ UNCHANGED fnVars
    /\ RunLogged(track,
                 CommandName(TransitionCommand(clips, AttemptOpts.transition_type,
                                               ClipDurations,
                                               TRANSITION_DURATION)))

Transition == TransitionStep(FALSE)

TransitionTracked == TransitionStep(TRUE)

\* Line 443: concat_clips in the except branch; its exception is not caught.
ConcatFallbackStep(track) ==
    /\ pc = "render" /\ stage = "concat_fallback"
    /\ \E ok \in BOOLEAN :
          IF ok
          THEN /\ timeline' = TransitionFallback(clips, ClipInfo)
               /\ stage' = "overlay"
               /\ UNCHANGED <<pc, exc, attempt, attempts, clips, captions_ass,
                              transition_failed, overlay_failed, raised_at, output>>
          ELSE AttemptRaises("concat")
    /\ UNCHANGED <<JOBS, opts, plan, plan_norm, segments, source_info, server_log>>
    /\ UNCHANGED fnVars
    /\ RunLogged(track, "concat")

ConcatFallback == ConcatFallbackStep(FALSE)

ConcatFallbackTracked == ConcatFallbackStep(TRUE)

\* Mutant: the exception of apply_overlays is not caught.
OverlayStageUncaught(base, n, ok) ==
    IF n = 0 THEN [raised |-> FALSE, failed |-> FALSE, file |-> base]
    ELSE IF ok THEN [raised |-> FALSE, failed |-> FALSE, file |-> OverlayFile(base, n)]
    ELSE [raised |-> TRUE, failed |-> TRUE, file |-> base]

\* Lines 454-458 with apply_overlays: no overlays, the joined file is renamed;
\* else the overlay command runs, and when it fails the joined file is used.
OverlayStage(base, n, ok) ==
    IF n = 0 THEN [raised |-> FALSE, failed |-> FALSE, file |-> base]
    ELSE IF ok THEN [raised |-> FALSE, failed |-> FALSE, file |-> OverlayFile(base, n)]
    ELSE [raised |-> FALSE, failed |-> TRUE, file |-> base]

\* generate_visual_assets raises or returns 0..MaxOverlays items.
AssetCounts == 0..MaxOverlays

\* Lines 445-458: generate_visual_assets (its exception is not caught), then
\* apply_overlays.
OverlayStep(track) ==
    /\ pc = "render" /\ stage = "overlay"
    /\ \E gen_ok \in BOOLEAN, n \in AssetCounts, ok \in BOOLEAN :
          IF AttemptOpts.ai_visuals_enabled /\ ~gen_ok
          THEN AttemptRaises("assets") /\ UNCHANGED logVars
          ELSE LET overlays == IF AttemptOpts.ai_visuals_enabled THEN n ELSE 0
                   r == OverlayStage(timeline, overlays, ok)
               IN  /\ IF overlays > 0 THEN RunLogged(track, "overlay")
                      ELSE UNCHANGED logVars
                   /\ IF r.raised
                      THEN AttemptRaises("overlay")
                      ELSE /\ timeline' = r.file
                           /\ overlay_failed' = r.failed
                           /\ stage' = "captions"
                           /\ UNCHANGED <<pc, exc, attempt, attempts, clips,
                                          captions_ass, transition_failed,
                                          raised_at, output>>
    /\ UNCHANGED <<JOBS, opts, plan, plan_norm, segments, source_info, server_log>>
    /\ UNCHANGED fnVars

Overlay == OverlayStep(FALSE)

OverlayTracked == OverlayStep(TRUE)

\* Lines 460-471: build_ass and the write of captions.ass.
Captions ==
    /\ pc = "render" /\ stage = "captions"
    /\ \E ok \in BOOLEAN :
          IF ~WantsCaptions(AttemptOpts, plan)
          THEN /\ captions_ass' = FALSE
               /\ stage' = "final"
               /\ UNCHANGED <<pc, exc, attempt, attempts, clips, timeline,
                              transition_failed, overlay_failed, raised_at, output>>
          ELSE IF ok
          THEN /\ captions_ass' = TRUE
               /\ stage' = "final"
               /\ UNCHANGED <<pc, exc, attempt, attempts, clips, timeline,
                              transition_failed, overlay_failed, raised_at, output>>
          ELSE AttemptRaises("captions")
    /\ UNCHANGED <<JOBS, opts, plan, plan_norm, segments, source_info, server_log>>
    /\ UNCHANGED fnVars
    /\ UNCHANGED logVars

\* Lines 473-475: render_final, then the return of the output path.
FinalStep(track) ==
    /\ pc = "render" /\ stage = "final"
    /\ \E ok \in BOOLEAN :
          IF ok
          THEN /\ output' = FinalFile(timeline, captions_ass)
               /\ attempts' = [attempts EXCEPT ![attempt].result = "returned"]
               /\ stage' = "returned"
               /\ pc' = "inspect"
               /\ UNCHANGED <<exc, attempt, clips, timeline, captions_ass,
                              transition_failed, overlay_failed, raised_at>>
          ELSE AttemptRaises("final")
    /\ UNCHANGED <<JOBS, opts, plan, plan_norm, segments, source_info, server_log>>
    /\ UNCHANGED fnVars
    /\ RunLogged(track, "final")

Final == FinalStep(FALSE)

FinalTracked == FinalStep(TRUE)

\* Lines 598-608: the except branches build the fallback options and call
\* render_video_pipeline again with the same segments.
StartFallback ==
    /\ pc = "render" /\ stage = "fallback"
    /\ attempt' = attempt + 1
    /\ attempts' = Append(attempts,
                     Call(IF attempt = 1 THEN FallbackOpts(opts)
                          ELSE FallbackOptsNoCaptions(attempts[attempt].opts),
                          segments))
    /\ stage' = "begin"
    /\ raised_at' = None
    /\ UNCHANGED <<pc, exc, clips, timeline, captions_ass, transition_failed,
                   overlay_failed, output>>
    /\ UNCHANGED <<JOBS, opts, plan, plan_norm, segments, source_info, server_log>>
    /\ UNCHANGED fnVars
    /\ UNCHANGED logVars

-----------------------------------------------------------------------------
(* app.py: process_job after the render attempts. *)

\* Lines 610-618: the integrity check, then the registry update.
Inspect ==
    /\ pc = "inspect"
    /\ IF OutputLower(output.info, source_info)
       THEN /\ Caught("Output resolution lower than source.")
            /\ JOBS' = JOBS
       ELSE /\ JOBS' = update_job(JOBS, JID, [status |-> "done", progress |-> 100,
                                              output |-> FinalPath])
            /\ pc' = "notify"
            /\ exc' = exc
    /\ UNCHANGED <<opts, plan, plan_norm, segments, source_info, server_log>>
    /\ UNCHANGED renderVars
    /\ UNCHANGED fnVars
    /\ UNCHANGED logVars

\* Mutant: the exception of the e-mail step reaches the outer handler.
NotifyUncaught ==
    /\ pc = "notify"
    /\ \E mail \in {"none", "failed"} :
          IF mail = "failed"
          THEN Caught("SMTP error")
          ELSE pc' = "finished" /\ exc' = exc
    /\ UNCHANGED <<JOBS, opts, plan, plan_norm, segments, source_info, server_log>>
    /\ UNCHANGED renderVars
    /\ UNCHANGED fnVars
    /\ UNCHANGED logVars

\* Lines 619-624: the optional e-mail; its exception is logged and dropped.
Notify ==
    /\ pc = "notify"
    /\ \E mail \in {"none", "failed"} :
          server_log' = IF mail = "failed"
                        THEN server_log \o <<"EMAIL ERROR">> ELSE server_log
    /\ pc' = "finished"
    /\ UNCHANGED <<JOBS, opts, plan, plan_norm, segments, source_info, exc>>
    /\ UNCHANGED renderVars
    /\ UNCHANGED fnVars
    /\ UNCHANGED logVars

\* Mutant: the handler goes on to the registry update without writing to
\* server.log.
LogErrorSkipsLog ==
    /\ pc = "handler"
    /\ pc' = "logged"
    /\ UNCHANGED <<JOBS, opts, plan, plan_norm, segments, source_info, exc,
                   server_log>>
    /\ UNCHANGED renderVars
    /\ UNCHANGED fnVars
    /\ UNCHANGED logVars

\* Lines 626-628: the handler writes the error and the traceback to server.log.
LogError ==
    /\ pc = "handler"
    /\ server_log' = server_log \o <<"ERROR", "TRACEBACK">>
    /\ pc' = "logged"
    /\ UNCHANGED <<JOBS, opts, plan, plan_norm, segments, source_info, exc>>
    /\ UNCHANGED renderVars
    /\ UNCHANGED fnVars
    /\ UNCHANGED logVars

\* Lines 629 and 648: update_job(job_id, status="error", progress=100, error=str(exc)).
MarkError ==
    /\ pc = "logged"
    /\ JOBS' = update_job(JOBS, JID, [status |-> "error", progress |-> 100,
                                      error |-> exc])
    /\ pc' = "finished"
    /\ UNCHANGED <<opts, plan, plan_norm, segments, source_info, exc, server_log>>
    /\ UNCHANGED renderVars
    /\ UNCHANGED fnVars
    /\ UNCHANGED logVars

-----------------------------------------------------------------------------
(* Spec: one job, from its request to its terminal status. *)

Init == JobIdle /\ FnIdle

Next ==
    \/ StartJob \/ StartFromUrl
    \/ UrlQueued \/ UrlFetching \/ UrlDownloading \/ UrlLogError
    \/ Queue \/ CheckKey \/ Upload \/ Plan \/ Enrich
    \/ BeginAttempt \/ TrimClip \/ Transition \/ ConcatFallback \/ Overlay
    \/ Captions \/ Final \/ StartFallback
    \/ Inspect \/ Notify \/ LogError \/ MarkError

Spec == Init /\ [][Next]_vars

\* Every external call returns or raises and every started thread keeps
\* running: a step that can be taken is eventually taken.
SpecLive == Init /\ [][Next]_vars /\ WF_vars(Next)

-----------------------------------------------------------------------------
(* SpecRender: the render attempts of one job, with the commands they start *)
(* and the command log (runs/<job>/ffmpeg_commands.log).                    *)

\* The options of the first call: the transition is already resolved.
RenderOpts ==
    { o \in RequestOpts : /\ o.duration_s = MIN_TOTAL
                          /\ o.transition_type = "fade"
                          /\ o.output_resolution = "1080x1920" }

\* The segments of the call: two clips, and three.
RenderSegments ==
    { <<Seg(0, 150), Seg(150, 300)>>,
      <<Seg(0, 50), Seg(50, 200), Seg(200, 300)>> }

\* process_job at line 597: the plan is validated, the status is rendering
\* and render_video_pipeline is about to be called for the first time.
InitRender ==
    /\ \E o \in RenderOpts, segs \in RenderSegments, srt \in BOOLEAN :
          /\ opts = o
          /\ plan = [segments |-> segs, transition |-> "swipe", captions_srt |-> srt]
          /\ plan_norm = segs
          /\ segments = segs
          /\ attempts = <<Call(o, segs)>>
    /\ JOBS = update_job((JID :> NewJob), JID, [status |-> "rendering", progress |-> 80])
    /\ pc = "render"
    /\ attempt = 1
    /\ stage = "begin"
    /\ source_info = NoInfo
    /\ clips = <<>>
    /\ timeline = NoFile
    /\ captions_ass = FALSE
    /\ transition_failed = FALSE
    /\ overlay_failed = FALSE
    /\ raised_at = None
    /\ output = NoFile
    /\ exc = None
    /\ server_log = <<"Job created from file upload.", "Gemini plan generated.">>
    /\ cmd_log = <<>>
    /\ invoked = <<>>
    /\ LockIdle
    /\ FnIdle

NextRender ==
    \/ BeginAttempt \/ TrimClipTracked \/ TransitionTracked
    \/ ConcatFallbackTracked \/ OverlayTracked \/ Captions \/ FinalTracked
    \/ StartFallback

SpecRender == InitRender /\ [][NextRender]_vars

-----------------------------------------------------------------------------
(* SpecRegistry: worker threads and request handlers sharing JOBS under     *)
(* JOB_LOCK (app.py lines 93-94), one step per statement.                   *)

\* A registry entry that was never read.
NoEntry == [status |-> None, progress |-> 0, error |-> None, output |-> None]

NoFields == [k \in {} |-> None]

\* Keyword arguments are written in the order of the call.
FieldOrder == <<"status", "progress", "error", "output">>

Keys(fields) == SelectSeq(FieldOrder, LAMBDA k : k \in DOMAIN fields)

\* Largest number of requests one status or download client sends.
MaxRequests == 2

\* Job ids: j1 is registered from the start, j2 is registered by the POST
\* handler of the model, j9 is in no request.
JobIds == {"j1", "j2", "j9"}

\* The update_job calls of a worker thread, in order.
Script(t) ==
    CASE t = "worker1" -> <<[status |-> "rendering", progress |-> 80],
                            [status |-> "done", progress |-> 100,
                             output |-> FinalPath]>>
      [] t = "worker2" -> <<[status |-> "queued", progress |-> 10],
                            [status |-> "error", progress |-> 100,
                             error |-> "FFmpeg command failed."]>>
      [] t = "worker9" -> <<[status |-> "done", progress |-> 100,
                             output |-> FinalPath]>>
      [] OTHER -> <<>>

WorkerJob(t) ==
    CASE t = "worker1" -> "j1"
      [] t = "worker2" -> "j2"
      [] OTHER -> "j9"

Workers == {"worker1", "worker2", "worker9"}

Clients == {"post", "status", "download"}

Threads == Workers \cup Clients

\* A thread: what it runs (op), where it is (at), its arguments (job,
\* fields), the keys still to write, the calls made so far, and the last
\* response a client returned.
Thread(op, n) ==
    [op |-> op, at |-> "idle", job |-> None, fields |-> NoFields,
     todo |-> <<>>, calls |-> n, code |-> 0, seen |-> NoEntry]

\* The statements executed inside `with JOB_LOCK:`.
InLock == {"locked", "update", "read_output", "exit"}

InitRegistry ==
    /\ JOBS = ("j1" :> NewJob)
    /\ JOB_LOCK = None
    /\ threads = [t \in Threads |->
                    Thread(IF t \in Workers THEN "update_job"
                           ELSE IF t = "post" THEN "start_job"
                           ELSE IF t = "status" THEN "get_status" ELSE "download", 0)]
    /\ pc = "none"
    /\ opts = NoOpts
    /\ plan = NoPlan
    /\ plan_norm = <<>>
    /\ segments = <<>>
    /\ source_info = NoInfo
    /\ attempt = 0
    /\ attempts = <<>>
    /\ stage = "none"
    /\ clips = <<>>
    /\ timeline = NoFile
    /\ captions_ass = FALSE
    /\ transition_failed = FALSE
    /\ overlay_failed = FALSE
    /\ raised_at = None
    /\ output = NoFile
    /\ exc = None
    /\ server_log = <<>>
    /\ cmd_log = <<>>
    /\ invoked = <<>>
    /\ fn_pc = "off"
    /\ FfIdle
    /\ PlanFnIdle

RegistryFrame ==
    UNCHANGED <<pc, opts, plan, plan_norm, segments, source_info, attempt, attempts,
                stage, clips, timeline, captions_ass, transition_failed,
                overlay_failed, raised_at, output, exc, server_log, cmd_log, invoked,
                fn_pc, in_segments, in_min_len, normalized, renormalized,
                clamp_in, clamp_target, clamp_out, ff_in, ff_cmd, ff_auto>>

\* A worker thread of job j2 exists once start_job has registered the job
\* (threading.Thread(...).start() follows the registration).
Started(t) == t = "worker2" => threads["post"].calls > 0

\* A thread enters update_job, start_job, get_status or download and reaches
\* `with JOB_LOCK:`.
Enter(t) ==
    /\ threads[t].at = "idle"
    /\ Started(t)
    /\ IF t \in Workers
       THEN /\ threads[t].calls < Len(Script(t))
            /\ threads' = [threads EXCEPT ![t].at = "wait",
                                          ![t].job = WorkerJob(t),
                                          ![t].fields = Script(t)[threads[t].calls + 1]]
       ELSE IF t = "post"
       THEN /\ threads[t].calls < 1
            /\ threads' = [threads EXCEPT ![t].at = "wait", ![t].job = "j2"]
       ELSE /\ threads[t].calls < MaxRequests
            /\ \E j \in JobIds :
                  threads' = [threads EXCEPT ![t].at = "wait", ![t].job = j]
    /\ UNCHANGED <<JOBS, JOB_LOCK>>
    /\ RegistryFrame

\* Mutant: the lock is taken without waiting for its holder.
AcquireNoWait(t) ==
    /\ threads[t].at = "wait"
    /\ JOB_LOCK' = t
    /\ threads' = [threads EXCEPT ![t].at = "locked"]
    /\ UNCHANGED JOBS
    /\ RegistryFrame

\* with JOB_LOCK: (Lock.acquire blocks while another thread holds the lock).
Acquire(t) ==
    /\ threads[t].at = "wait"
    /\ JOB_LOCK = None
    /\ JOB_LOCK' = t
    /\ threads' = [threads EXCEPT ![t].at = "locked"]
    /\ UNCHANGED JOBS
    /\ RegistryFrame

\* update_job lines 185-187: job = JOBS.get(job_id); if not job: return.
Get(t) ==
    /\ threads[t].op = "update_job"
    /\ threads[t].at = "locked"
    /\ threads' = IF threads[t].job \in DOMAIN JOBS
                  THEN [threads EXCEPT ![t].at = "update",
                                       ![t].todo = Keys(threads[t].fields)]
                  ELSE [threads EXCEPT ![t].at = "exit"]
    /\ UNCHANGED <<JOBS, JOB_LOCK>>
    /\ RegistryFrame

\* update_job line 188: job.update(fields), one key at a time.
WriteField(t) ==
    /\ threads[t].at = "update"
    /\ LET k == Head(threads[t].todo)
           rest == Tail(threads[t].todo)
       IN  /\ JOBS' = [JOBS EXCEPT ![threads[t].job][k] = threads[t].fields[k]]
           /\ threads' = [threads EXCEPT ![t].todo = rest,
                                         ![t].at = IF rest = <<>> THEN "exit"
                                                   ELSE "update"]
    /\ UNCHANGED JOB_LOCK
    /\ RegistryFrame

\* start_job lines 930-935 and start_from_url lines 1040-1045: the new entry
\* is stored whole.
Register(t) ==
    /\ threads[t].op = "start_job"
    /\ threads[t].at = "locked"
    /\ JOBS' = (threads[t].job :> NewJob) @@ JOBS
    /\ threads' = [threads EXCEPT ![t].at = "exit"]
    /\ UNCHANGED JOB_LOCK
    /\ RegistryFrame

\* get_status lines 1133-1139: the entry is copied inside the lock.
ReadStatus(t) ==
    /\ threads[t].op = "get_status"
    /\ threads[t].at = "locked"
    /\ LET r == get_status(JOBS, threads[t].job)
       IN  threads' = [threads EXCEPT
                         ![t].at = "exit",
                         ![t].code = r.code,
                         ![t].seen = IF r.code = 200 THEN JOBS[threads[t].job]
                                     ELSE NoEntry]
    /\ UNCHANGED <<JOBS, JOB_LOCK>>
    /\ RegistryFrame

\* download lines 1145-1149: the lookup and the test of the status.
ReadDone(t) ==
    /\ threads[t].op = "download"
    /\ threads[t].at = "locked"
    /\ LET r == download(JOBS, threads[t].job)
       IN  threads' = [threads EXCEPT
                         ![t].at = IF r.code = 200 THEN "read_output" ELSE "exit",
                         ![t].code = r.code,
                         ![t].seen = IF r.code = 200
                                     THEN [NoEntry EXCEPT !.status = "done"]
                                     ELSE NoEntry]
    /\ UNCHANGED <<JOBS, JOB_LOCK>>
    /\ RegistryFrame

\* download line 1150: output_path = job["output"].
ReadOutput(t) ==
    /\ threads[t].at = "read_output"
    /\ threads' = [threads EXCEPT ![t].at = "exit",
                                  ![t].seen.output = JOBS[threads[t].job].output]
    /\ UNCHANGED <<JOBS, JOB_LOCK>>
    /\ RegistryFrame

\* The end of the with block releases the lock; the call returns.
Release(t) ==
    /\ threads[t].at = "exit"
    /\ JOB_LOCK' = None
    /\ threads' = [threads EXCEPT ![t].at = "idle",
                                  ![t].calls = threads[t].calls + 1,
                                  ![t].todo = <<>>]
    /\ UNCHANGED JOBS
    /\ RegistryFrame

NextRegistry ==
    \E t \in Threads :
        \/ Enter(t) \/ Acquire(t) \/ Get(t) \/ WriteField(t) \/ Register(t)
        \/ ReadStatus(t) \/ ReadDone(t) \/ ReadOutput(t) \/ Release(t)

SpecRegistry == InitRegistry /\ [][NextRegistry]_vars

-----------------------------------------------------------------------------
(* SpecVoiceover: the voiceover of one job, from process_job's text-to-      *)
(* speech step to the tempo stage of render_final.  Speeds are in            *)
(* hundredths (1.0 = 100).                                                   *)

\* abs(speed - 1.0) > 0.01
SpeedDiffers(speed) ==
    (IF speed >= 100 THEN speed - 100 ELSE 100 - speed) > 1

\* max(0.5, min(2.0, speed))
ClampSpeed(speed) ==
    IF speed < 50 THEN 50 ELSE IF speed > 200 THEN 200 ELSE speed

\* An atempo filter run on the voiceover, and the function that ran it.
Tempo(speed, by) == [op |-> "atempo", speed |-> speed, by |-> by]

\* voiceover_speed: below the clamp, 1.0, 1.5, above the clamp.
VoiceSpeeds == {30, 100, 150, 250}

\* The voiceover fields of opts as start_job builds them: voiceover_text
\* stands for a non-empty text, voiceover_path is None or the uploaded file.
VoiceOpts ==
    [voiceover_enabled : BOOLEAN,
     voiceover_text : BOOLEAN,
     voiceover_path : {None, "voiceover_upload.mp3"},
     voiceover_speed : VoiceSpeeds,
     voiceover_pre_sped : BOOLEAN,
     voiceover_mode : {"replace", "mix", "duck"}]

InitVoiceover ==
    /\ fn_pc = "voice_input"
    /\ PlanFnIdle
    /\ ff_in \in VoiceOpts
    /\ ff_cmd = <<>>
    /\ ff_auto = 0
    /\ JobIdle

\* process_job lines 503-526: a voiceover text without a file is synthesised
\* (text_to_speech may raise); a speed other than 1.0 is applied to the
\* generated file by apply_audio_speed, and opts["voiceover_path"] is set.
Synthesize ==
    /\ fn_pc = "voice_input"
    /\ IF ff_in.voiceover_enabled /\ ff_in.voiceover_text
          /\ ff_in.voiceover_path = None
       THEN \E ok \in BOOLEAN :
               IF ~ok
               THEN fn_pc' = "voice_failed" /\ UNCHANGED <<ff_in, ff_cmd>>
               ELSE /\ fn_pc' = "voice_ready"
                    /\ IF SpeedDiffers(ff_in.voiceover_speed)
                       THEN /\ ff_cmd' = Append(ff_cmd,
                                   Tempo(ClampSpeed(ff_in.voiceover_speed),
                                         "apply_audio_speed"))
                            /\ ff_in' = [ff_in EXCEPT !.voiceover_path =
                                            "voiceover_sped.mp3"]
                       ELSE /\ ff_cmd' = ff_cmd
                            /\ ff_in' = [ff_in EXCEPT !.voiceover_path =
                                            "voiceover.mp3"]
       ELSE fn_pc' = "voice_ready" /\ UNCHANGED <<ff_in, ff_cmd>>
    /\ UNCHANGED <<in_segments, in_min_len, normalized, renormalized, clamp_in,
                   clamp_target, clamp_out, ff_auto>>
    /\ UNCHANGED jobVars

\* render_final line 181: opts.get("voiceover_path") if
\* opts.get("voiceover_enabled") else None.
RenderedVoiceover(o) ==
    IF o.voiceover_enabled THEN o.voiceover_path ELSE None

\* render_final line 204: the condition of the atempo stage.
NeedsTempo(o) ==
    /\ RenderedVoiceover(o) # None
    /\ ~o.voiceover_pre_sped
    /\ SpeedDiffers(o.voiceover_speed)

\* render_final lines 203-209: the tempo stage of the final mix.
RenderVoice ==
    /\ fn_pc = "voice_ready"
    /\ fn_pc' = "voice_rendered"
    /\ ff_cmd' = IF NeedsTempo(ff_in)
                 THEN Append(ff_cmd, Tempo(ClampSpeed(ff_in.voiceover_speed),
                                           "render_final"))
                 ELSE ff_cmd
    /\ UNCHANGED <<in_segments, in_min_len, normalized, renormalized, clamp_in,
                   clamp_target, clamp_out, ff_in, ff_auto>>
    /\ UNCHANGED jobVars

NextVoiceover == Synthesize \/ RenderVoice

SpecVoiceover == InitVoiceover /\ [][NextVoiceover]_vars

-----------------------------------------------------------------------------
(* SpecNormalize: normalize_segments applied to every small input, then to  *)
(* its own output.                                                          *)

InitNormalize ==
    /\ fn_pc = "input"
    /\ in_segments \in NormalizeInputs
    /\ in_min_len = 0
    /\ normalized = <<>>
    /\ renormalized = <<>>
    /\ clamp_in = <<>>
    /\ clamp_target = 0
    /\ clamp_out = NoClampOut
    /\ FfIdle
    /\ JobIdle

Normalize ==
    /\ fn_pc = "input"
    /\ \E m \in MinLens :
          /\ in_min_len' = m
          /\ normalized' = normalize_segments(in_segments, m)
    /\ fn_pc' = "normalized"
    /\ UNCHANGED <<in_segments, renormalized, clamp_in, clamp_target, clamp_out>>
    /\ UNCHANGED ffVars
    /\ UNCHANGED jobVars

Renormalize ==
    /\ fn_pc = "normalized"
    /\ renormalized' = normalize_segments(normalized, in_min_len)
    /\ fn_pc' = "renormalized"
    /\ UNCHANGED <<in_segments, in_min_len, normalized, clamp_in, clamp_target,
                   clamp_out>>
    /\ UNCHANGED ffVars
    /\ UNCHANGED jobVars

NextNormalize == Normalize \/ Renormalize

SpecNormalize == InitNormalize /\ [][NextNormalize]_vars

-----------------------------------------------------------------------------
(* SpecClamp: clamp_duration_to_range applied to every normalized list over *)
(* the grid, for every target.                                              *)

InitClamp ==
    /\ fn_pc = "clamp_input"
    /\ in_segments = <<>>
    /\ in_min_len = MIN_LEN
    /\ normalized = <<>>
    /\ renormalized = <<>>
    /\ clamp_in \in ClampInputs
    /\ clamp_target = 0
    /\ clamp_out = NoClampOut
    /\ FfIdle
    /\ JobIdle

Clamp ==
    /\ fn_pc = "clamp_input"
    /\ \E t \in ClampTargets :
          /\ clamp_target' = t
          /\ clamp_out' = clamp_duration_to_range(clamp_in, t, MIN_TOTAL, MAX_TOTAL)
    /\ fn_pc' = "clamped"
    /\ UNCHANGED <<in_segments, in_min_len, normalized, renormalized, clamp_in>>
    /\ UNCHANGED ffVars
    /\ UNCHANGED jobVars

NextClamp == Clamp

SpecClamp == InitClamp /\ [][NextClamp]_vars

-----------------------------------------------------------------------------
(* SpecAudio: render_final applied to every combination of the audio        *)
(* options.                                                                  *)

\* Largest number of SFX items, and the longest stream, in time units.
MaxSfx == 2
MaxDur == 2

\* opts as render_final reads it: voiceover stands for a voiceover_path with
\* voiceover_enabled, atempo for `not voiceover_pre_sped and
\* abs(voiceover_speed - 1.0) > 0.01`, music for a music_file with
\* music_enabled, nsfx for len(sfx_items); base_dur and voice_dur are the
\* lengths of [0:a] and of voice_input.
AudioOpts ==
    {o \in [voiceover : BOOLEAN, atempo : BOOLEAN,
            mode : {"replace", "mix", "duck"},
            music : BOOLEAN, music_ducking : BOOLEAN, nsfx : 0..MaxSfx,
            audio_enhance : BOOLEAN, audio_loudnorm : BOOLEAN,
            audio_compressor : BOOLEAN, audio_denoise : BOOLEAN,
            captions : BOOLEAN, base_dur : 1..MaxDur, voice_dur : 1..MaxDur] :
        /\ o.atempo => o.voiceover
        /\ o.music_ducking => o.music
        /\ ~o.voiceover => (o.mode = "replace" /\ o.voice_dur = 1)}

InitAudio ==
    /\ fn_pc = "audio_input"
    /\ PlanFnIdle
    /\ ff_in \in AudioOpts
    /\ ff_cmd = None
    /\ ff_auto = 0
    /\ JobIdle

\* render_final builds the command and runs it; with no -map ffmpeg takes the
\* audio of one of the inputs.
RenderFinal ==
    /\ fn_pc = "audio_input"
    /\ ff_cmd' = render_final(ff_in)
    /\ ff_auto' \in (IF render_final(ff_in).mapped THEN {0}
                   ELSE 0..(Len(Inputs(ff_in)) - 1))
    /\ fn_pc' = "audio_built"
    /\ UNCHANGED <<in_segments, in_min_len, normalized, renormalized, clamp_in,
                   clamp_target, clamp_out, ff_in>>
    /\ UNCHANGED jobVars

NextAudio == RenderFinal

SpecAudio == InitAudio /\ [][NextAudio]_vars

-----------------------------------------------------------------------------
(* SpecTransitions: apply_transitions applied to every short clip list and  *)
(* every transition type.                                                    *)

\* Clip lists hold at most MaxClips clips out of MaxClips clip files.
MaxClips == 3

ClipLists == SeqsUpTo(0..(MaxClips - 1), MaxClips)

\* The allowed transition types a render attempt can pass, and a value
\* outside the allow-list.
TransitionTypes == (ALLOWED_TRANSITIONS \ {"auto"}) \cup {"zoom"}

\* _probe_duration of a clip file: 0 when ffprobe prints nothing, 1 s, 2.5 s.
ProbeDurations == {0, 10, 25}

\* The argument `duration`: 0.3 s and 0.5 s.
TransitionDurations == {TRANSITION_DURATION, 5}

\* Line 112: durations = [_probe_duration(path) for path in clip_paths]
Probed(a) == [i \in 1..Len(a.clip_paths) |-> a.probe[a.clip_paths[i]]]

InitTransitions ==
    /\ fn_pc = "transition_input"
    /\ PlanFnIdle
    /\ ff_in \in [clip_paths : ClipLists, transition_type : TransitionTypes,
                   probe : [0..(MaxClips - 1) -> ProbeDurations],
                   duration : TransitionDurations]
    /\ ff_cmd = None
    /\ ff_auto = 0
    /\ JobIdle

ApplyTransitions ==
    /\ fn_pc = "transition_input"
    /\ ff_cmd' = TransitionCommand(ff_in.clip_paths, ff_in.transition_type,
                                   Probed(ff_in), ff_in.duration)
    /\ fn_pc' = "transition_built"
    /\ UNCHANGED <<in_segments, in_min_len, normalized, renormalized, clamp_in,
                   clamp_target, clamp_out, ff_in, ff_auto>>
    /\ UNCHANGED jobVars

NextTransitions == ApplyTransitions

SpecTransitions == InitTransitions /\ [][NextTransitions]_vars

-----------------------------------------------------------------------------
(* Properties of normalize_segments (SpecNormalize). *)

SortedByStart(segs) ==
    \A i \in 1..(Len(segs) - 1) : segs[i].start <= segs[i + 1].start

NoOverlaps(segs) ==
    \A i \in 1..(Len(segs) - 1) : segs[i + 1].start >= segs[i].end

AllAtLeast(segs, min_len) ==
    \A i \in 1..Len(segs) : segs[i].end - segs[i].start >= min_len

\* [{0,5},{5,20},{18,30}] in tenths of a second, and what it must become.
ExampleInput == <<Seg(0, 50), Seg(50, 200), Seg(180, 300)>>
ExampleOutput == <<Seg(0, 50), Seg(50, 200), Seg(200, 300)>>

\* C1: for every input list and every min_len > 0 the output of
\* normalize_segments is sorted ascending by start, has no overlaps (each
\* start is >= the previous end) and every output segment is at least
\* min_len long; the list [{0,5},{5,20},{18,30}] becomes
\* [{0,5},{5,20},{20,30}].
C1_NormalizedWellFormed ==
    /\ fn_pc \in {"normalized", "renormalized"} =>
          /\ SortedByStart(normalized)
          /\ NoOverlaps(normalized)
          /\ AllAtLeast(normalized, in_min_len)
    /\ normalize_segments(ExampleInput, MIN_LEN) = ExampleOutput

\* An unsorted input of three segments of which one was dropped and one had
\* its start moved to the previous end.
C1_Witness ==
    /\ fn_pc = "normalized"
    /\ Len(in_segments) = 3
    /\ ~SortedByStart(in_segments)
    /\ Len(normalized) = 2
    /\ \A i \in 1..3 : in_segments[i].start # normalized[2].start
    /\ normalized[2].start = normalized[1].end

-----------------------------------------------------------------------------
(* Properties of clamp_duration_to_range (SpecClamp). *)

\* C2 as stated: the returned list never totals more than max_total, and the
\* returned total is never below min_total unless the returned list is the
\* input.
C2_Original ==
    fn_pc = "clamped" =>
        /\ Total(clamp_out.segments) <= MAX_TOTAL
        /\ clamp_out.total < MIN_TOTAL => clamp_out.segments = clamp_in

\* C2 (amended): for every normalized list and every target_s <= max_total,
\* a returned list totals more than max_total only when it is the original
\* input, unchanged (the rejected clamp); and for every target_s the returned
\* total is below min_total only when the returned list is the original
\* input, unchanged.
C2_ClampWithinBoundsOrOriginal ==
    fn_pc = "clamped" =>
        /\ (clamp_target <= MAX_TOTAL /\ Total(clamp_out.segments) > MAX_TOTAL)
              => clamp_out.segments = clamp_in
        /\ clamp_out.total < MIN_TOTAL => clamp_out.segments = clamp_in
        /\ clamp_out.total = Total(clamp_out.segments)

\* A list longer than max_total that was trimmed: a strict prefix with its
\* last segment shortened.
C2_Witness ==
    /\ fn_pc = "clamped"
    /\ clamp_target = DEFAULT_DURATION
    /\ Total(clamp_in) > MAX_TOTAL
    /\ clamp_out.segments # clamp_in
    /\ Len(clamp_out.segments) = 2
    /\ clamp_out.segments[2].end < clamp_in[2].end
    /\ clamp_out.total = DEFAULT_DURATION

\* The returned list is a prefix of the input in which only the last segment
\* may be shortened: same start, end not later than the original end.
PrefixLastShortened(out, inp) ==
    /\ Len(out) <= Len(inp)
    /\ \A i \in 1..Len(out) :
          /\ out[i].start = inp[i].start
          /\ IF i < Len(out) THEN out[i].end = inp[i].end
             ELSE out[i].end <= inp[i].end /\ out[i].end > out[i].start

\* C11: for every normalized list whose total exceeds max_total and
\* target_s = 45 s with the bounds (30 s, 60 s), clamp_duration_to_range
\* returns a total between 30 s and 45 s inclusive, equal to the sum of the
\* returned segment lengths, and the returned list is a prefix of the input
\* in which only the last segment may be shortened.
C11_TrimToTarget ==
    (fn_pc = "clamped" /\ clamp_target = DEFAULT_DURATION
        /\ Total(clamp_in) > MAX_TOTAL) =>
        /\ clamp_out.total >= MIN_TOTAL
        /\ clamp_out.total <= DEFAULT_DURATION
        /\ clamp_out.total = Total(clamp_out.segments)
        /\ PrefixLastShortened(clamp_out.segments, clamp_in)

\* A 74.6 s list of two segments whose first segment leaves less than 0.4 s
\* of the 45 s budget: the second segment is dropped, the total is 44.7 s.
C11_Witness ==
    /\ fn_pc = "clamped"
    /\ clamp_target = DEFAULT_DURATION
    /\ Total(clamp_in) > MAX_TOTAL
    /\ Len(clamp_in) = 2
    /\ clamp_out.segments = <<clamp_in[1]>>
    /\ clamp_out.total < DEFAULT_DURATION
    /\ clamp_out.total > DEFAULT_DURATION - CLAMP_MIN_REMAINING

-----------------------------------------------------------------------------
(* Properties of render_final (SpecAudio). *)

AudioBuilt == fn_pc = "audio_built"

\* The source a stage means by an input pad "[idx:a]": atempo reads the
\* voiceover, the adelay stage of SFX item n reads that item, the volume
\* stage reads the music; in every other stage index 0 is the base timeline
\* and any other index is the voiceover.
ExpectedSource(st, pad) ==
    IF st.op = "atempo" THEN Src("voiceover", 0)
    ELSE IF st.op = "adelay" THEN Src("sfx", st.out.idx)
    ELSE IF st.op = "volume" THEN Src("music", 0)
    ELSE IF pad.idx = 0 THEN Src("base", 0)
    ELSE Src("voiceover", 0)

\* C12: for every combination of voiceover, music and k >= 0 SFX items,
\* each input index used in the audio graph is the position at which that
\* source was attached to the command (base 0, then voiceover, then music,
\* then each SFX item in list order): no source is referenced by another
\* source's index and no index is out of range.
C12_InputIndicesMatch ==
    AudioBuilt =>
        /\ ff_cmd.inputs[1] = Src("base", 0)
        /\ \A i \in 1..Len(ff_cmd.filter_complex) :
              \A k \in 1..Len(ff_cmd.filter_complex[i].ins) :
                 LET st  == ff_cmd.filter_complex[i]
                     pad == st.ins[k]
                 IN  pad.ref = "in" =>
                        /\ pad.idx >= 0
                        /\ pad.idx < Len(ff_cmd.inputs)
                        /\ ff_cmd.inputs[pad.idx + 1] = ExpectedSource(st, pad)

\* A tempo-adjusted voiceover, music and two SFX items: the SFX stages read
\* the inputs 3 and 4.
C12_Witness ==
    /\ AudioBuilt
    /\ ff_in.voiceover /\ ff_in.atempo /\ ff_in.music /\ ff_in.nsfx = 2
    /\ Len(ff_cmd.inputs) = 5
    /\ \E i \in 1..Len(ff_cmd.filter_complex) :
          /\ ff_cmd.filter_complex[i].op = "adelay"
          /\ ff_cmd.filter_complex[i].ins = <<In(4)>>

\* C13 as stated: in mode replace with a voiceover present, the audio of the
\* output is that of the voiceover and never that of the base timeline, for
\* every combination of music, SFX and enhancement options, none included.
C13_ReplaceUsesVoiceover ==
    (AudioBuilt /\ ff_in.voiceover /\ ff_in.mode = "replace") =>
        /\ 1 \in OutputAudio(ff_cmd, ff_auto)
        /\ 0 \notin OutputAudio(ff_cmd, ff_auto)

\* C14 as stated: in mode mix the base audio and the voiceover are combined
\* by one two-input mix stage without weights whose output is as long as the
\* longer of the two inputs.
C14_MixLongest ==
    (AudioBuilt /\ ff_in.voiceover /\ ff_in.mode = "mix") =>
        \E i \in 1..Len(ff_cmd.filter_complex) :
            LET st == ff_cmd.filter_complex[i]
            IN  /\ st.op = "amix"
                /\ st.out = Lbl("voice")
                /\ Len(st.ins) = 2
                /\ st.ins[1] = In(0)
                /\ Heard(ff_cmd.filter_complex, i, st.ins[2]) = {1}
                /\ \A j \in 1..Len(ff_cmd.filter_complex) :
                      ff_cmd.filter_complex[j].out = Lbl("voice") => j = i
                /\ AmixDuration(st.duration, <<ff_in.base_dur, ff_in.voice_dur>>)
                      = Max(ff_in.base_dur, ff_in.voice_dur)

\* C15: in mode duck with a voiceover present the audio graph contains a
\* sidechaincompress stage whose main input is the base audio and whose
\* control input is the voiceover, followed by a mix of the ducked base with
\* the voiceover.
C15_DuckSidechain ==
    (AudioBuilt /\ ff_in.voiceover /\ ff_in.mode = "duck") =>
        /\ ff_cmd.inputs[2] = Src("voiceover", 0)
        /\ \E i \in 1..(Len(ff_cmd.filter_complex) - 1) :
              LET st  == ff_cmd.filter_complex[i]
                  nxt == ff_cmd.filter_complex[i + 1]
              IN  /\ st.op = "sidechaincompress"
                  /\ Len(st.ins) = 2
                  /\ st.ins[1] = In(0)
                  /\ Heard(ff_cmd.filter_complex, i, st.ins[2]) = {1}
                  /\ nxt.op = "amix"
                  /\ nxt.ins = <<st.out, st.ins[2]>>

\* Duck mode with a tempo-adjusted voiceover and ducked music: two
\* sidechaincompress stages, the first one on the base audio.
C15_Witness ==
    /\ AudioBuilt
    /\ ff_in.voiceover /\ ff_in.atempo /\ ff_in.mode = "duck"
    /\ ff_in.music_ducking /\ ff_in.nsfx = 1
    /\ ff_cmd.filter_complex[2].op = "sidechaincompress"
    /\ ff_cmd.filter_complex[2].ins = <<In(0), Lbl("vo")>>
    /\ Cardinality({i \in 1..Len(ff_cmd.filter_complex) :
                       ff_cmd.filter_complex[i].op = "sidechaincompress"}) = 2

\* Position of an enhancement filter in the fixed order.
EnhanceRank(f) ==
    IF f = "loudnorm" THEN 1 ELSE IF f = "compand" THEN 2 ELSE 3

\* The enhancement filters of the command, in the order they are applied.
EnhanceChain ==
    IF ff_cmd.filter_complex = <<>> THEN ff_cmd.af
    ELSE ff_cmd.filter_complex[Len(ff_cmd.filter_complex)].chain

\* C16 as stated: for every combination of audio_enhance, audio_loudnorm,
\* audio_compressor and audio_denoise the enhancement stages come after all
\* voiceover, SFX and music stages and are a subsequence of (loudnorm,
\* compand, afftdn): each at most once, in that order, and only when its own
\* flag or (for loudnorm and compand) audio_enhance is set.
C16_EnhancementOrder ==
    AudioBuilt =>
        /\ \A i \in 1..(Len(ff_cmd.filter_complex) - 1) :
              ff_cmd.filter_complex[i].chain = <<>>
        /\ \A i \in 1..Len(EnhanceChain) : \A j \in 1..Len(EnhanceChain) :
              i < j => EnhanceRank(EnhanceChain[i]) < EnhanceRank(EnhanceChain[j])
        /\ \A i \in 1..Len(EnhanceChain) :
              \/ EnhanceChain[i] = "loudnorm"
                    /\ (ff_in.audio_loudnorm \/ ff_in.audio_enhance)
              \/ EnhanceChain[i] = "compand"
                    /\ (ff_in.audio_compressor \/ ff_in.audio_enhance)
              \/ EnhanceChain[i] = "afftdn" /\ ff_in.audio_denoise

\* Number of times the stages after stage i, and the -map, read pad p.
Consumers(cmd, i, p) ==
    LET fc == cmd.filter_complex
        reads == {<<j, n>> \in ((i + 1)..Len(fc)) \X (1..(MaxSfx + 2)) :
                     n <= Len(fc[j].ins) /\ fc[j].ins[n] = p}
    IN  Cardinality(reads)
        + (IF cmd.mapped /\ cmd.audio_map = p THEN 1 ELSE 0)

\* C24: in every audio graph render_final builds each label is the output of
\* one stage only; each label is read exactly once, by a later stage or by
\* the -map; every pad a stage reads is an input pad or the output of an
\* earlier stage; and the mapped label is the output of a stage.  Violated:
\* duck mode reads voice_input twice and music ducking reads voice_label
\* twice, and both name their compressor output [ducked].
C24_GraphWellFormed ==
    AudioBuilt =>
        LET fc == ff_cmd.filter_complex
        IN  /\ \A i \in 1..Len(fc) : \A j \in 1..Len(fc) :
                  i # j => fc[i].out # fc[j].out
            /\ \A i \in 1..Len(fc) : Consumers(ff_cmd, i, fc[i].out) = 1
            /\ \A j \in 1..Len(fc) : \A n \in 1..Len(fc[j].ins) :
                  \/ /\ fc[j].ins[n].ref = "in"
                     /\ fc[j].ins[n].idx \in 0..(Len(ff_cmd.inputs) - 1)
                  \/ \E i \in 1..(j - 1) : fc[i].out = fc[j].ins[n]
            /\ ff_cmd.mapped => \E i \in 1..Len(fc) : fc[i].out = ff_cmd.audio_map

-----------------------------------------------------------------------------
(* Properties of apply_transitions (SpecTransitions). *)

\* C17: with transition_type none or fewer than 2 clips apply_transitions
\* runs exactly a stream-copy concatenation of all given clips in their list
\* order, with no cross-fade filter stage and no clip dropped, duplicated or
\* reordered.
C17_NoneIsPlainConcat ==
    (fn_pc = "transition_built"
        /\ (ff_in.transition_type = "none" \/ Len(ff_in.clip_paths) < 2)) =>
        /\ ff_cmd.demuxer = "concat"
        /\ ff_cmd.codec = "copy"
        /\ ff_cmd.list = ff_in.clip_paths
        /\ ff_cmd.filter_complex = <<>>

\* One clip with the swipe transition requested: a concatenation of that
\* clip.
C17_Witness ==
    /\ fn_pc = "transition_built"
    /\ ff_in.transition_type = "swipe"
    /\ Len(ff_in.clip_paths) = 1
    /\ ff_cmd.list = ff_in.clip_paths
    /\ ff_cmd.codec = "copy"

\* d_0 + ... + d_(k-1), the clips numbered from 0 as in the code.
RECURSIVE SumFirst(_, _)
SumFirst(durations, k) ==
    IF k = 0 THEN 0 ELSE SumFirst(durations, k - 1) + durations[k]

\* C22: for N >= 2 clips and a transition type other than none the command
\* has exactly N - 1 xfade stages; stage k merges the running result ([0:v]
\* for k = 1, else the label of stage k - 1) with clip k at offset
\* (d_0 + ... + d_(k-1)) - k * T, and the label of the last stage is mapped.
C22_XfadeOffsets ==
    (fn_pc = "transition_built"
        /\ ff_in.transition_type # "none" /\ Len(ff_in.clip_paths) >= 2) =>
        LET N == Len(ff_in.clip_paths)
            fc == ff_cmd.filter_complex
        IN  /\ Len(fc) = N - 1
            /\ ff_cmd.inputs = ff_in.clip_paths
            /\ \A k \in 1..(N - 1) :
                  /\ fc[k].op = "xfade"
                  /\ fc[k].ins = <<IF k = 1 THEN VIn(0) ELSE fc[k - 1].out, VIn(k)>>
                  /\ fc[k].out = VLbl(k)
                  /\ fc[k].duration = ff_in.duration
                  /\ fc[k].offset = SumFirst(Probed(ff_in), k) - k * ff_in.duration
            /\ ff_cmd.map = <<fc[N - 1].out>>

\* Three clips of 2.5 s, 1 s and 2.5 s with a 0.5 s fade: offsets 2.0 s and
\* 2.5 s.
C22_Witness ==
    /\ fn_pc = "transition_built"
    /\ ff_in.transition_type = "fade"
    /\ ff_in.duration = 5
    /\ Probed(ff_in) = <<25, 10, 25>>
    /\ Len(ff_cmd.filter_complex) = 2
    /\ ff_cmd.filter_complex[1].offset = 20
    /\ ff_cmd.filter_complex[2].offset = 25

-----------------------------------------------------------------------------
(* Properties of the voiceover tempo (SpecVoiceover). *)

VoiceRendered == fn_pc = "voice_rendered" /\ RenderedVoiceover(ff_in) # None

\* C23: a rendered voiceover has had its tempo changed at most once in the
\* job, by the speed clamped to [0.5, 2.0]; exactly once when the speed is
\* not 1.0 and the file was not declared pre-adjusted; never when the speed
\* is 1.0; the stage of render_final is not emitted after an earlier change.
\* Violated: a synthesised voiceover is sped up by apply_audio_speed and again
\* by render_final.
C23_TempoOnce ==
    VoiceRendered =>
        /\ Len(ff_cmd) <= 1
        /\ \A i \in 1..Len(ff_cmd) :
              /\ ff_cmd[i].speed = ClampSpeed(ff_in.voiceover_speed)
              /\ ff_cmd[i].speed \in 50..200
        /\ ~SpeedDiffers(ff_in.voiceover_speed) => ff_cmd = <<>>
        /\ (SpeedDiffers(ff_in.voiceover_speed) /\ ~ff_in.voiceover_pre_sped)
              => Len(ff_cmd) = 1

-----------------------------------------------------------------------------
(* Properties of the job worker (Spec). *)

Registered == JID \in DOMAIN JOBS

Job == JOBS[JID]

RenderError == "FFmpeg command failed."

IntegrityError == "Output resolution lower than source."

PlanningError == "Plan returned insufficient segments."

AfterHandler == pc \in {"handler", "logged", "finished"}

\* The clips of all segments of the job, in segment order: clip idx for
\* segments[idx].
AllClips == [i \in 1..Len(segments) |-> i - 1]

\* C3: a job runs at most three render attempts, one after another; attempt
\* 2 runs only if attempt 1 raised, with the AI overlays disabled and the
\* transition forced to none; attempt 3 runs only if attempt 2 raised, with
\* the captions disabled as well; every attempt gets the same normalized
\* segments and otherwise the same options; and a render-stage error marks
\* the job failed only if all three attempts raised.
C3_CascadingFallback ==
    /\ Len(attempts) <= 3
    /\ attempt = Len(attempts)
    /\ \A k \in 1..Len(attempts) :
          /\ attempts[k].segments = segments
          /\ k < Len(attempts) => attempts[k].result = "raised"
          /\ attempts[k].opts.duration_s = opts.duration_s
          /\ attempts[k].opts.output_resolution = opts.output_resolution
          /\ attempts[k].opts.transition_type =
                (IF k = 1 THEN opts.transition_type ELSE "none")
          /\ attempts[k].opts.ai_visuals_enabled =
                (IF k = 1 THEN opts.ai_visuals_enabled ELSE FALSE)
          /\ attempts[k].opts.captions_enabled =
                (IF k = 3 THEN FALSE ELSE opts.captions_enabled)
    /\ exc = RenderError =>
          /\ Len(attempts) = 3
          /\ \A k \in 1..3 : attempts[k].result = "raised"
    /\ (Registered /\ Job.status = "error" /\ Len(attempts) > 0
          /\ exc # IntegrityError) =>
          /\ exc = RenderError
          /\ Len(attempts) = 3

\* Three attempts raised, the first with overlays, captions and a swipe
\* transition requested; the job is marked failed.
C3_Witness ==
    /\ pc = "finished"
    /\ Job.status = "error"
    /\ Job.error = RenderError
    /\ Len(attempts) = 3
    /\ attempts[1].opts.ai_visuals_enabled
    /\ attempts[1].opts.captions_enabled
    /\ attempts[1].opts.transition_type = "swipe"

\* The output frame is smaller than the source frame in width or in height.
Downsized ==
    \/ output.info.width < source_info.width
    \/ output.info.height < source_info.height

\* C4: once a render attempt has returned, an output frame smaller than the
\* source frame in width or height ends the job in status error with no
\* output recorded and no further render attempt; an output at least as
\* large as the source in both axes makes the job done.
C4_IntegrityCheck ==
    (stage = "returned" /\ pc # "inspect") =>
        /\ attempts[attempt].result = "returned"
        /\ attempt = Len(attempts)
        /\ Downsized =>
              /\ AfterHandler
              /\ exc = IntegrityError
              /\ Job.output = None
              /\ Job.status # "done"
              /\ pc = "finished" => Job.status = "error"
        /\ ~Downsized =>
              /\ Job.status = "done"
              /\ Job.output = FinalPath
        /\ OutputLower(Info(480, 854), Info(1080, 1920))

\* A 1080x1920 output from a 1080x2400 source: the job ended in error after
\* a single attempt that returned.
C4_Witness ==
    /\ pc = "finished"
    /\ stage = "returned"
    /\ source_info = Info(1080, 2400)
    /\ output.info = Info(1080, 1920)
    /\ Job.status = "error"
    /\ Job.output = None
    /\ Len(attempts) = 1

\* C5: in every registry state a job with status done has its output
\* recorded and no error, a job with status error has no output and its
\* download is refused, and a job in any other status has no output.
C5_NoPartialSuccess ==
    \A j \in DOMAIN JOBS :
        /\ JOBS[j].status = "done" =>
              /\ JOBS[j].output = FinalPath
              /\ JOBS[j].error = None
              /\ download(JOBS, j) = [code |-> 200, file |-> FinalPath]
        /\ JOBS[j].status = "error" =>
              /\ JOBS[j].output = None
              /\ JOBS[j].error # None
              /\ download(JOBS, j).code = 400
        /\ JOBS[j].status \notin {"done", "error"} =>
              /\ JOBS[j].output = None
              /\ JOBS[j].error = None

\* A job that became done after its second attempt.
C5_Witness ==
    /\ Registered
    /\ Job.status = "done"
    /\ Len(attempts) = 2
    /\ pc = "finished"

\* C6: when apply_transitions fails, the same attempt concatenates the same
\* clips in the same order and goes on with the later stages; the failure of
\* the transition command never ends an attempt, so no fallback attempt is
\* started because of it.
C6_TransitionFallback ==
    /\ raised_at # "transition"
    /\ stage = "concat_fallback" =>
          /\ transition_failed
          /\ attempts[attempt].result = "running"
          /\ clips = AllClips
    /\ (transition_failed /\ stage \in {"overlay", "captions", "final", "returned"}) =>
          /\ timeline.clips = AllClips
          /\ timeline.transition = "none"
    /\ (transition_failed /\ stage = "returned") =>
          /\ output.clips = AllClips
          /\ output.transition = "none"
          /\ attempts[attempt].result = "returned"

\* The swipe cross-fade of attempt 1 failed, the three clips were
\* concatenated and the job became done without a second attempt.
C6_Witness ==
    /\ pc = "finished"
    /\ transition_failed
    /\ Len(attempts) = 1
    /\ attempts[1].opts.transition_type = "swipe"
    /\ output.clips = <<0, 1, 2>>
    /\ Job.status = "done"

\* C7: a failure of the overlay command does not end the attempt: the
\* attempt goes on from the joined timeline without overlays, and when the
\* other stages succeed the output has no overlays, has the captions burnt
\* in (when they are enabled and the plan has caption text) and has the
\* configured transition between its clips, and the job becomes done when
\* the output passes the integrity check.
C7_OverlayFailureTolerated ==
    /\ raised_at # "overlay"
    /\ overlay_failed =>
          /\ stage \in {"captions", "final", "returned"}
          /\ attempts[attempt].result # "raised"
          /\ timeline.overlays = 0
          /\ timeline.clips = AllClips
    /\ (overlay_failed /\ stage = "returned") =>
          /\ output.overlays = 0
          /\ output.captions = (AttemptOpts.captions_enabled /\ plan.captions_srt)
          /\ (~transition_failed /\ Len(segments) >= 2) =>
                output.transition = AttemptOpts.transition_type
          /\ (pc = "finished" /\ ~Downsized) =>
                (Job.status = "done" /\ Job.output = FinalPath)

\* The overlay command of attempt 1 failed; the job is done with captions and
\* the swipe transition and without overlays.
C7_Witness ==
    /\ pc = "finished"
    /\ overlay_failed
    /\ ~transition_failed
    /\ Len(attempts) = 1
    /\ Job.status = "done"
    /\ output.overlays = 0
    /\ output.captions
    /\ output.transition = "swipe"

\* The plan was returned and normalize_segments has run.
Normalised == plan # NoPlan

\* C8: when normalization yields fewer than 2 segments the job ends in
\* status error and no render attempt is made.
C8_InsufficientSegmentsFatal ==
    (Normalised /\ Len(plan_norm) < 2) =>
        /\ attempts = <<>>
        /\ attempt = 0
        /\ stage = "none"
        /\ AfterHandler
        /\ exc = PlanningError
        /\ Job.status \in {"planning", "error"}
        /\ pc = "finished" => (Job.status = "error" /\ Job.error = PlanningError)

\* One segment was left by normalization; the job ended in error.
C8_Witness ==
    /\ Normalised
    /\ Len(plan_norm) = 1
    /\ pc = "finished"
    /\ Job.status = "error"
    /\ attempts = <<>>

\* C9 as stated: no render attempt receives a segment list whose total
\* duration lies outside [min_total, max_total].
C9_RenderedWithinBounds ==
    \A k \in 1..Len(attempts) :
        /\ Total(attempts[k].segments) >= MIN_TOTAL
        /\ Total(attempts[k].segments) <= MAX_TOTAL

\* C26: every call of render_video_pipeline receives at least 2 segments.
\* Violated: the test for fewer than 2 segments precedes the clamp, and the
\* clamp can keep the first segment alone.
C26_AtLeastTwoSegments ==
    \A k \in 1..Len(attempts) : Len(attempts[k].segments) >= 2

Terminal == Registered /\ Job.status \in {"done", "error"}

\* C27: a job entered into the registry eventually has status done or error.
\* Violated: a request rejected by validate_opts leaves its registry entry
\* at queued and starts no thread.
C27_EventuallyTerminal ==
    Registered ~> Terminal

\* C28: once the status is done or error no step changes the status, the
\* output or the error of the job, and no step of the job's life lowers its
\* progress.
C28_TerminalAbsorbing ==
    [][Registered =>
         /\ Registered'
         /\ Job'.progress >= Job.progress
         /\ Terminal => /\ Job'.status = Job.status
                        /\ Job'.output = Job.output
                        /\ Job'.error = Job.error]_vars

\* C28 witness: the job is done, the e-mail step failed after that and was
\* logged, and the entry still says done with the output path.
C28_Witness ==
    /\ pc = "finished"
    /\ Registered
    /\ Job.status = "done"
    /\ Job.progress = 100
    /\ Job.output = FinalPath
    /\ server_log[Len(server_log)] = "EMAIL ERROR"

\* C29: the target frame of a render attempt is at least the source frame in
\* width and in height, and an attempt that returned its output is not
\* rejected by the integrity check.  Violated: the height is derived from the
\* width alone, so a source taller than 9:16 gets a lower target.
C29_TargetCoversSource ==
    (attempt >= 1 /\ source_info # NoInfo) =>
        /\ TargetWidth(source_info, AttemptOpts) >= source_info.width
        /\ TargetHeight(source_info, AttemptOpts) >= source_info.height
        /\ stage = "returned" => ~OutputLower(output.info, source_info)

\* Transition types a request can name explicitly.
ExplicitTransitions == {"fade", "crossfade", "dip_black", "swipe"}

\* The transition type of the first attempt for a requested value and a
\* suggestion of the plan.
FirstTransition(requested, suggested) ==
    ResolveTransition(validate_opts([NoOpts EXCEPT !.transition_type = requested]),
                      suggested).transition_type

\* C30: the first render attempt never has transition type none: an explicit
\* fade, crossfade, dip_black or swipe is passed through, every other
\* request (none, auto, an unknown name) takes the plan's suggestion when
\* that is an allowed value other than none and fade otherwise; attempts 2
\* and 3 have transition type none.
C30_FirstAttemptTransition ==
    /\ Len(attempts) >= 1 =>
          /\ attempts[1].opts.transition_type # "none"
          /\ attempts[1].opts.transition_type \in
                ExplicitTransitions \cup {plan.transition}
          /\ \A k \in 2..Len(attempts) : attempts[k].opts.transition_type = "none"
    /\ \A suggested \in ALLOWED_TRANSITIONS \cup {"zoom", None} :
          /\ \A t \in ExplicitTransitions : FirstTransition(t, suggested) = t
          /\ FirstTransition("cross-fade", suggested) = "crossfade"
          /\ \A t \in {"none", "auto", "auto_gemini", "zoom", None} :
                FirstTransition(t, suggested) =
                    IF suggested \in ALLOWED_TRANSITIONS \ {"none"}
                    THEN suggested ELSE "fade"

\* C30 witness: the plan suggested none, the first attempt ran with fade and
\* raised, and both fallback attempts ran with none.
C30_Witness ==
    /\ Len(attempts) = 3
    /\ plan.transition = "none"
    /\ attempts[1].opts.transition_type = "fade"
    /\ attempts[2].opts.transition_type = "none"
    /\ attempts[3].opts.transition_type = "none"

\* server.log holds an "ERROR: ..." entry.
HasErrorEntry == \E i \in 1..Len(server_log) : server_log[i] = "ERROR"

MarkedError == Registered /\ Job.status = "error"

\* C19: a job whose status is 'error' has an error entry in its server.log,
\* and the entry is already there in the state from which the registry
\* status is changed to 'error'.
C19_ErrorLoggedBeforeStatus ==
    /\ [](MarkedError => HasErrorEntry)
    /\ [][(~MarkedError /\ MarkedError') => HasErrorEntry]_vars

\* C19 witness: a render failure of the third attempt has been logged and
\* the job is marked 'error'.
C19_Witness ==
    /\ pc = "finished"
    /\ MarkedError
    /\ Job.error = RenderError
    /\ HasErrorEntry

\* The stage changes of one call of render_video_pipeline that does not raise.
StageOrder ==
    { <<"begin", "trim">>, <<"trim", "transition">>,
      <<"transition", "overlay">>, <<"transition", "concat_fallback">>,
      <<"concat_fallback", "overlay">>, <<"overlay", "captions">>,
      <<"captions", "final">>, <<"final", "returned">> }

Raised == stage' \in {"fallback", "raised"}

\* A step inside one call: the attempt number stays.
SameAttempt == attempt' = attempt /\ attempt >= 1

\* One step keeps the stages of an attempt in order.
StagesInOrder ==
    (SameAttempt /\ stage' # stage /\ ~Raised) => <<stage, stage'>> \in StageOrder

\* Clips are added one at a time, clip idx from segment idx, and the trim
\* stage is left when every segment has its clip.
TrimsInSegmentOrder ==
    /\ (SameAttempt /\ clips' # clips /\ ~Raised) =>
           /\ stage = "trim"
           /\ clips' = Append(clips, Len(clips))
    /\ (SameAttempt /\ stage = "trim" /\ stage' = "transition") =>
           clips' = [i \in 1..Len(AttemptSegs) |-> i - 1]

\* The file a stage writes is made from the file the stage before it left.
StageInputs ==
    /\ (SameAttempt /\ stage' = "overlay" /\ stage # "overlay") =>
           /\ timeline'.clips = clips
           /\ timeline'.overlays = 0 /\ ~timeline'.captions
    /\ (SameAttempt /\ stage = "overlay" /\ stage' = "captions") =>
           /\ [timeline' EXCEPT !.overlays = 0, !.audio = TRUE]
                 = [timeline EXCEPT !.audio = TRUE]
    /\ (SameAttempt /\ stage = "captions" /\ stage' = "final") =>
           timeline' = timeline
    /\ (SameAttempt /\ stage = "final" /\ stage' = "returned") =>
           /\ [output' EXCEPT !.captions = FALSE] = [timeline EXCEPT !.captions = FALSE]
           /\ output'.captions = captions_ass

\* The call returns in the step in which the final encode succeeds, and at
\* no other step; the output file is written by that step alone.
ReturnsAfterFinal ==
    /\ (stage' = "returned" /\ stage # "returned") =>
           /\ stage = "final"
           /\ attempts'[attempt].result = "returned"
    /\ \A a \in 1..Len(attempts) :
           (attempts'[a].result = "returned" /\ attempts[a].result # "returned") =>
              a = attempt /\ stage = "final" /\ stage' = "returned"
    /\ output' # output => stage = "final" /\ stage' = "returned"

\* A call that raised stays raised: it never returns a path.
RaisedStaysRaised ==
    /\ (SameAttempt /\ Raised /\ stage # stage') =>
           attempts'[attempt].result = "raised"
    /\ \A a \in 1..Len(attempts) :
           attempts[a].result = "raised" => attempts'[a].result = "raised"

\* C20: within one render attempt the stages run one after the other in the
\* order trim (every segment, in segment order), transition (or its concat
\* fallback), overlay, captions, final encode, return; each stage works on
\* the file the previous stage left; the call returns only in the step in
\* which the final encode succeeded; an attempt that raised never returns.
C20_StagesSequential ==
    [][/\ StagesInOrder
       /\ TrimsInSegmentOrder
       /\ StageInputs
       /\ ReturnsAfterFinal
       /\ RaisedStaysRaised]_vars

\* C20 witness: a first attempt went through every stage, with an overlay
\* and captions, and returned the encoded file.
C20_Witness ==
    /\ stage = "returned"
    /\ attempt = 1
    /\ attempts[1].result = "returned"
    /\ Len(clips) = 3
    /\ output.clips = clips
    /\ output.overlays = 1
    /\ output.captions
    /\ output.transition = "swipe"

\* C25: the options of the job model carry no voiceover, so the final mix
\* of every attempt reads the base audio [0:a]; the file handed to
\* render_final must then still have the audio of the trimmed clips.
\* Violated: the xfade command is run with -an and the overlay command maps
\* the video label only.
C25_BaseAudioKept ==
    (pc = "render" /\ stage = "final") => timeline.audio

-----------------------------------------------------------------------------
(* Properties of the render attempts (SpecRender). *)

\* The commands of `cmds` that are equal to `cmd`, in order.
Only(cmds, cmd) == SelectSeq(cmds, LAMBDA c : c = cmd)

\* C18: every external process a render attempt has started was written to
\* the command log before it ran: the log holds a line for every command
\* started so far, trim commands included.  Violated: the trim commands are
\* started directly and never reach the log.
C18_EveryCommandLogged ==
    \A i \in 1..Len(invoked) :
        Len(Only(invoked, invoked[i])) <= Len(Only(cmd_log, invoked[i]))

-----------------------------------------------------------------------------
(* Properties of the registry under JOB_LOCK (SpecRegistry). *)

RegistryRunning == threads # <<>>

\* A thread that is at a statement inside `with JOB_LOCK:` holds the lock.
LockHeldInside ==
    \A t \in DOMAIN threads : threads[t].at \in InLock => JOB_LOCK = t

\* The entries update_job leaves once a whole call is applied: the progress
\* belongs to the status, and output and error are set with done and error.
WholeEntry(e) ==
    /\ (e.status = "done") <=> (e.output # None)
    /\ (e.status = "error") <=> (e.error # None)
    /\ e.progress = (CASE e.status = "queued" -> (IF e = NewJob THEN 0 ELSE 10)
                       [] e.status = "rendering" -> 80
                       [] OTHER -> 100)

\* What the clients have been answered is no half-written entry.
NoPartialRead ==
    /\ threads["status"].code = 200 => WholeEntry(threads["status"].seen)
    /\ (threads["download"].code = 200 /\ threads["download"].at \in {"exit", "idle"})
          => threads["download"].seen.output = FinalPath

\* A step that changes the entry of job j is a step of a thread that holds
\* the lock and runs update_job for j; it changes named fields only, to the
\* values of the call.
OnlyNamedFields ==
    \A j \in DOMAIN JOBS :
        JOBS'[j] # JOBS[j] =>
           /\ JOB_LOCK \in DOMAIN threads
           /\ threads[JOB_LOCK].op = "update_job"
           /\ threads[JOB_LOCK].job = j
           /\ \A k \in DOMAIN JOBS[j] :
                 JOBS'[j][k] # JOBS[j][k] =>
                    /\ k \in DOMAIN threads[JOB_LOCK].fields
                    /\ JOBS'[j][k] = threads[JOB_LOCK].fields[k]

\* The registry gains an entry only by the registration of start_job; no
\* entry is removed.
OnlyRegisterAdds ==
    /\ DOMAIN JOBS \subseteq DOMAIN JOBS'
    /\ DOMAIN JOBS' # DOMAIN JOBS =>
          /\ JOB_LOCK \in DOMAIN threads
          /\ threads[JOB_LOCK].op = "start_job"
          /\ JOBS' = (threads[JOB_LOCK].job :> NewJob) @@ JOBS

\* When a call of update_job returns, the entry is the entry at its start
\* with the fields of the call; for an unknown id the registry is as it was.
UnknownIdChangesNothing ==
    \A t \in Workers :
        (threads[t].at # "idle" /\ threads[t].job \notin DOMAIN JOBS) =>
            (threads'[t] # threads[t] => JOBS' = JOBS)

\* C21: every statement that reads or writes JOBS runs with JOB_LOCK held by
\* its thread; an update changes only the entry of its job and only the
\* fields it names; a status or download request is never answered from a
\* half-applied update; an update for an unknown job id changes nothing.
C21_RegistryUnderLock ==
    /\ [](RegistryRunning => (LockHeldInside /\ NoPartialRead))
    /\ [][RegistryRunning =>
            (OnlyNamedFields /\ OnlyRegisterAdds /\ UnknownIdChangesNothing)]_vars

\* C21 witness: while the worker of j1 waits for the lock with its final
\* update, a status request for j1 holds the lock; and the worker of the
\* unknown id has returned.
C21_Witness ==
    /\ RegistryRunning
    /\ threads["worker1"].at = "wait"
    /\ threads["worker1"].calls = 1
    /\ JOB_LOCK = "status"
    /\ threads["status"].job = "j1"
    /\ threads["worker9"].calls = 1
    /\ "j2" \in DOMAIN JOBS


====
